---- MODULE Spec2Model ----
(***************************************************************************)
(* Household energy dispatch: the four optimization models (1a, 1b, 1c,    *)
(* 2b) of src/src/opt_model/opt_model.py and the runner / sweep functions  *)
(* of src/src/runner/runner.py.                                            *)
(*                                                                         *)
(* Numbers.  Python floats are modelled by exact fixed-point integers:     *)
(*   - energy quantities (decision variables) are whole grid units 0..MaxQty*)
(*   - prices, tariffs, lambda and battery cost are in 1/PriceDen          *)
(*   - ratios (profiles, efficiencies, SOC ratios, factors, tolerance      *)
(*     ratios) are in 1/RatioDen                                           *)
(* Products of a ratio and a quantity are kept as numerators, and every    *)
(* constraint is cross-multiplied so that it is decided exactly.           *)
(*                                                                         *)
(* The solver (gurobipy) is an external collaborator.  optimize is         *)
(* modelled by its contract: a non-optimal status when the built problem   *)
(* is infeasible or has an improving ray, otherwise status OPTIMAL with    *)
(* one of the feasible grid points of maximal objective.  The solver is    *)
(* deterministic: which optimal point it reports is fixed by the variable  *)
(* solver, chosen freely at the start.  The decision variables range over  *)
(* the grid only: a reported optimum is the best point of the grid.        *)
(***************************************************************************)
EXTENDS Integers, Sequences, FiniteSets, TLC

\* ---- bounds of the model ----
NumHours == 2
MaxQty == 2
MaxSweepLen == 3
\* run() calls a caller makes on one model instance
MaxRuns == 2

\* ---- the tie-breaks a solver may have ----
TieBreaks == {0, 1, 2}

\* ---- units ----
RatioDen == 10
PriceDen == 1000

\* ---- gurobipy status codes ----
GRB_OPTIMAL == 2
GRB_INFEASIBLE == 3
GRB_INF_OR_UNBD == 4
GRB_UNBOUNDED == 5

\* ---- operational bounds of model 1a ----
MaxImportBound == 1000
MaxExportBound == 500

VARIABLES data, solver, pc, args, loc, results_all, models, heap, ret

vars == <<data, solver, pc, args, loc, results_all, models, heap, ret>>

Hours == 0 .. (NumHours - 1)
Qty == 0 .. MaxQty

\* ---------------------------------------------------------------------
\* helpers
\* ---------------------------------------------------------------------
RECURSIVE SumTo(_, _)
SumTo(f, n) == IF n = 0 THEN 0 ELSE f[n - 1] + SumTo(f, n - 1)

\* python: sum(expr for i in hours), hours = range(H)
SumOver(f) == SumTo(f, NumHours)

\* the same sum over the hours a parameter set names
SumOfHours(hours, f) == SumTo(f, Cardinality(hours))

MaxOf(T) == CHOOSE m \in T : \A n \in T : n <= m

MinOf(T) == CHOOSE m \in T : \A n \in T : m <= n

\* the empty dict {}
EmptyDict == <<>>

\* d[k] = v on a dict
DictSet(d, k, v) == (k :> v) @@ d

\* a dict without the key k
Without(d, k) == [j \in DOMAIN d \ {k} |-> d[j]]

\* params[k] raises KeyError for one of the keys a build reads
MissingKey(params, keys) == ~(keys \subseteq DOMAIN params)

\* arr[i] raises for some hour i of params["hours"], arr one of the arrays
\* a build indexes by hour
LacksHour(params, keys) == \E k \in keys : ~(params.hours \subseteq DOMAIN params[k])

\* an hourly array that alternates a, b, a, b, ...
Alt(a, b) == [h \in Hours |-> IF h % 2 = 0 THEN a ELSE b]

\* ---------------------------------------------------------------------
\* the data files read by the loaders (data/question_*/...json)
\* ---------------------------------------------------------------------
\* storage spec dict of appliance_params.json ["storage"][0]
StorageSpec(cap, eta_c, eta_d, chr, disr, cost, life) ==
    [storage_capacity_kWh |-> cap,
     charging_efficiency |-> eta_c,
     discharging_efficiency |-> eta_d,
     max_charging_power_ratio |-> chr,
     max_discharging_power_ratio |-> disr,
     battery_cost_per_kWh |-> cost,
     battery_lifetime_yrs |-> life]

\* storage preference dict of usage_preference.json ["storage_preferences"][0]
StoragePrefs(ini, fin) == [initial_soc_ratio |-> ini, final_soc_ratio |-> fin]

DataFile(name, pvcap, der, price, gi, ge, dmin, dhour, ratios, st, pr) ==
    [name |-> name,
     max_power_kW |-> pvcap,
     DER_prod |-> der,
     energy_price |-> price,
     import_tariff |-> gi,
     export_tariff |-> ge,
     min_total_energy |-> dmin,
     max_load_kWh_per_hour |-> dhour,
     hourly_profile_ratio |-> ratios,
     storage |-> st,
     storage_preferences |-> pr]

\* ordinary data: PV in even hours, price low in even hours
DataNormal ==
    DataFile("normal", 2, Alt(10, 0), Alt(1000, 2000), 100, 100, 1, 2, Alt(5, 10),
             StorageSpec(1, 10, 10, 10, 10, 3000, 10), StoragePrefs(0, 0))

\* a daily demand no import can cover, a final SOC the charger cannot reach
DataTight ==
    DataFile("tight", 2, Alt(10, 0), Alt(1000, 2000), 100, 100, 5000, 2, Alt(5, 10),
             StorageSpec(2, 5, 10, 5, 10, 3000, 10), StoragePrefs(0, 10))

\* an export premium (negative export tariff) and a cheap battery
DataPremium ==
    DataFile("premium", 2, Alt(10, 0), Alt(1000, 2000), 100, 0 - 300, 1, 2, Alt(5, 10),
             StorageSpec(1, 10, 10, 10, 10, 200, 10), StoragePrefs(0, 0))

\* a battery that must end the day full, with a lifetime of no hours
DataReserve ==
    DataFile("reserve", 2, Alt(10, 0), Alt(1000, 2000), 100, 100, 1, 2, Alt(5, 10),
             StorageSpec(1, 10, 10, 10, 10, 3000, 0), StoragePrefs(0, 10))

\* a storage entry without the key battery_lifetime_yrs
DataNoLifetime ==
    DataFile("nolifetime", 2, Alt(10, 0), Alt(1000, 2000), 100, 100, 1, 2, Alt(5, 10),
             Without(StorageSpec(1, 10, 10, 10, 10, 3000, 10), "battery_lifetime_yrs"),
             StoragePrefs(0, 0))

DataSets == {DataNormal, DataTight, DataPremium, DataReserve, DataNoLifetime}

\* BaseDataLoader.load_der_production
load_der_production(d) == d.DER_prod

\* BaseDataLoader.load_appliance_params
load_appliance_params(d, storage_ref) ==
    [DER |-> <<[max_power_kW |-> d.max_power_kW]>>,
     load |-> <<[max_load_kWh_per_hour |-> d.max_load_kWh_per_hour]>>,
     storage |-> [kind |-> "list", ref |-> storage_ref]]

\* BaseDataLoader.load_bus_params
load_bus_params(d) ==
    [energy_price |-> d.energy_price,
     import_tariff |-> d.import_tariff,
     export_tariff |-> d.export_tariff]

\* BaseDataLoader.load_usage_preferences
load_usage_preferences(d) ==
    [load_preferences |-> <<[min_total_energy |-> d.min_total_energy,
                             hourly_profile_ratio |-> d.hourly_profile_ratio]>>,
     storage_preferences |-> <<d.storage_preferences>>]

\* pv = {i: PV_capacity * DER_prod[i] for i in hours}   (numerators over RatioDen)
PvOf(d) == [i \in Hours |-> d.max_power_kW * load_der_production(d)[i]]

\* ref_load = {i: d_hour * ratios[i] for i in hours}    (numerators over RatioDen)
RefLoadOf(d) == [i \in Hours |-> d.max_load_kWh_per_hour * d.hourly_profile_ratio[i]]

\* ---------------------------------------------------------------------
\* a model instance: OptimizationModelXX.__init__
\* ---------------------------------------------------------------------
NewModel(cls, params) ==
    [cls |-> cls, params |-> params, built |-> FALSE, lp |-> EmptyDict, results |-> EmptyDict]

\* ---------------------------------------------------------------------
\* the solver, by its contract
\* ---------------------------------------------------------------------
\* Every problem built here is a staged one: the objective is a sum of
\* hourly terms and the hours are coupled only through a running state
\* (energy supplied so far, state of charge). A problem is given as
\*   inits  : the possible start states, [s, gain]
\*   stages : per hour, for every state s the hour can start in, a record
\*            [s, edges] with the set of edges [to, gain, pt] leaving s, pt
\*            being the values of the hour's decision variables
\*   finals : the states the last hour may end in
\* and its feasible points are the paths from a start to a final state.

\* the states the edges of a stage lead to
Targets(stage) == UNION {{e.to : e \in n.edges} : n \in stage}

\* the edges of a stage that leave state s
EdgesFrom(stage, s) == (CHOOSE n \in stage : n.s = s).edges

\* the value a table holds for state s
ValueAt(table, s) == (CHOOSE n \in table : n.s = s).v

\* tables[h]: the set of [s, v], v the best gain obtainable from state s
\* through the hours h, h+1, ..., for every s a final state can be reached
\* from (tables[H+1] holds the final states; when no state of the next hour
\* reaches one, none of this hour does)
RECURSIVE Tables(_, _, _)
Tables(stages, finals, h) ==
    IF h > Len(stages) THEN <<{[s |-> f, v |-> 0] : f \in finals}>>
    ELSE LET rest == Tables(stages, finals, h + 1)
             nxt == rest[1]
             open == {n.s : n \in nxt}
             ok == {[s |-> n.s, edges |-> {e \in n.edges : e.to \in open}] : n \in stages[h]}
         IN  IF nxt = {} THEN <<{}>> \o rest
             ELSE <<{[s |-> n.s, v |-> MaxOf({e.gain + ValueAt(nxt, e.to) : e \in n.edges})]
                     : n \in {k \in ok : k.edges # {}}}>> \o rest

\* the n-th element of a finite non-empty set, counted cyclically
RECURSIVE Pick(_, _)
Pick(S, n) ==
    LET first == CHOOSE v \in S : TRUE
    IN  IF n = 0 THEN first ELSE Pick(S \ {first}, n - 1)

\* an optimal path from state s through the hours h, h+1, ...: where
\* several choices are optimal, the tie-break picks
RECURSIVE BestPath(_, _, _, _, _)
BestPath(stages, tables, h, s, tie) ==
    IF h > Len(stages) THEN <<>>
    ELSE LET cur == ValueAt(tables[h], s)
             nxt == tables[h + 1]
             open == {n.s : n \in nxt}
             best == {e \in EdgesFrom(stages[h], s) : /\ e.to \in open
                                                      /\ e.gain + ValueAt(nxt, e.to) = cur}
             e == Pick(best, tie % Cardinality(best))
         IN  <<e.pt>> \o BestPath(stages, tables, h + 1, e.to, tie)

\* the start states a final state can be reached from, with their totals
Totals(inits, tables) ==
    {[s |-> i.s, v |-> i.gain + ValueAt(tables[1], i.s)]
     : i \in {j \in inits : j.s \in {n.s : n \in tables[1]}}}

\* an optimal solution [init, path] of a staged problem
BestSolution(inits, stages, tables, tie) ==
    LET tot == Totals(inits, tables)
        top == MaxOf({n.v : n \in tot})
        starts == {n.s : n \in {k \in tot : k.v = top}}
        init == Pick(starts, tie % Cardinality(starts))
    IN  [init |-> init, path |-> BestPath(stages, tables, 1, init, tie)]

\* model.optimize(): the status and, when optimal, the solution. prob is the
\* built problem, ray the same problem with every right-hand side set to 0:
\* a solution of ray with a positive objective is an improving direction.
\* The solver is deterministic; which of several optimal points (and which
\* of the two possible non-optimal codes) it reports is its own business
\* and is fixed by tie, the solver's tie-break.
SolverOutcome(prob, ray, tie) ==
    LET tables == Tables(prob.stages, prob.finals, 1)
        tot == Totals(prob.inits, tables)
        rtables == Tables(ray.stages, ray.finals, 1)
        rtot == Totals(ray.inits, rtables)
    IN  IF tot = {}
        THEN [status |-> IF tie % 2 = 0 THEN GRB_INFEASIBLE ELSE GRB_INF_OR_UNBD]
        ELSE IF \E n \in rtot : n.v > 0
        THEN [status |-> IF tie % 2 = 0 THEN GRB_UNBOUNDED ELSE GRB_INF_OR_UNBD]
        ELSE [status |-> GRB_OPTIMAL, X |-> BestSolution(prob.inits, prob.stages, tables, tie)]

\* the hourly array of one decision variable of a solution path
Hourly(path, F(_)) == [i \in 0 .. (Len(path) - 1) |-> F(path[i + 1])]

\* stages from hour h on, given the states R the hour can start in
RECURSIVE StagesOver(_, _, _, _)
StagesOver(E(_, _), h, n, R) ==
    IF h = n THEN <<>>
    ELSE LET edges == E(h, R)
         IN  <<edges>> \o StagesOver(E, h + 1, n, Targets(edges))

\* the stages of a problem over the hours of the data files
StagesFrom(E(_, _), h, R) == StagesOver(E, h, NumHours, R)

\* the shadow price a constraint handle reports (.Pi): solver supplied
Pi == "Pi"

\* ---------------------------------------------------------------------
\* OptimizationModel1a
\* ---------------------------------------------------------------------
Params1a(hours, pv, b, s, GI, GE, D) ==
    [hours |-> hours, pv |-> pv, b |-> b, s |-> s, GI |-> GI, GE |-> GE, D |-> D]

\* x[i], y[i], z[i] = addVars(hours, lb=0): the values of one hour
Vars1a == [x : Qty, y : Qty, z : Qty]

\* a cap that keeps one unit of the production back
PVcap_Short(lp, i, o) == o.x = 0 \/ RatioDen * o.x <= lp.pv[i] - RatioDen

\* PVcap: x[i] <= pv[i]
PVcap(lp, i, o) == RatioDen * o.x <= lp.pv[i]

\* the balance without the guard: only the served energy is kept >= 0
HourlyBalance_NoGuard(lp, i, o) == o.x + o.y - o.z >= 0

\* HourlyBalance of 1a: x[i] - z[i] >= 0
HourlyBalance(lp, i, o) == o.x - o.z >= 0

\* MaxImport: y[i] <= 1000
MaxImport(lp, i, o) == o.y <= lp.max_import

\* MaxExport: z[i] <= 500
MaxExport(lp, i, o) == o.z <= lp.max_export

\* the daily demand left out
DailyDemand_Ignored(lp, total) == total >= 0

\* DailyDemand: quicksum(x[i] + y[i] - z[i]) >= D, on the running sum
DailyDemand(lp, total) == total >= lp.D

\* the hourly term of the objective: z[i]*(s[i]-GE) - y[i]*(b[i]+GI)
Gain1a(lp, i, o) == o.z * (lp.s[i] - lp.GE) - o.y * (lp.b[i] + lp.GI)

\* OptimizationModel1a.build_model: the problem data the constraints are built from
build_model_1a(m) ==
    [m EXCEPT !.built = TRUE,
              !.lp = [hours |-> m.params.hours, pv |-> m.params.pv, b |-> m.params.b,
                      s |-> m.params.s, GE |-> m.params.GE, GI |-> m.params.GI,
                      D |-> m.params.D,
                      max_import |-> MaxImportBound, max_export |-> MaxExportBound]]

\* the values of x, y, z the constraints of hour i admit
HourOpts1a(lp, i) ==
    {v \in Vars1a : /\ PVcap(lp, i, v)
                    /\ HourlyBalance(lp, i, v)
                    /\ MaxImport(lp, i, v)
                    /\ MaxExport(lp, i, v)}

\* the choices of hour i from the running sums R
Edges1a(lp, i, R) ==
    LET opts == HourOpts1a(lp, i)
    IN  {[s |-> r,
          edges |-> {[to |-> r + o.x + o.y - o.z, gain |-> Gain1a(lp, i, o), pt |-> o]
                     : o \in opts}]
         : r \in R}

\* the 1a problem over hours = range(H), H the number of hours in params
Problem1a(lp) ==
    LET E(h, R) == Edges1a(lp, h, R)
        stages == StagesOver(E, 0, Cardinality(lp.hours), {0})
        last == Targets(stages[Len(stages)])
    IN  [inits |-> {[s |-> 0, gain |-> 0]},
         stages |-> stages,
         finals |-> {r \in last : DailyDemand(lp, r)}]

\* every right-hand side of the 1a problem set to 0
Homogeneous1a(lp) ==
    [lp EXCEPT !.pv = [i \in lp.hours |-> 0], !.D = 0, !.max_import = 0, !.max_export = 0]

\* the values (.X) of x, y, z the solver holds after an optimal solve
Point1a(path) ==
    [x |-> Hourly(path, LAMBDA q : q.x),
     y |-> Hourly(path, LAMBDA q : q.y),
     z |-> Hourly(path, LAMBDA q : q.z)]

\* the solver's state after optimize(): its status and, when optimal, .X
Solved(o, P(_)) ==
    IF o.status = GRB_OPTIMAL THEN [status |-> o.status, X |-> P(o.X.path)] ELSE o

\* model.optimize() on the built 1a problem
optimize_1a(lp, tie) ==
    Solved(SolverOutcome(Problem1a(lp), Problem1a(Homogeneous1a(lp)), tie), Point1a)

\* the objective value the solver reports (model.ObjVal)
ObjVal1a(lp, v) ==
    SumOfHours(lp.hours, [i \in lp.hours |-> Gain1a(lp, i, [x |-> v.x[i], y |-> v.y[i], z |-> v.z[i]])])

\* OptimizationModel1a._save_results
save_results_1a(m, o, res) ==
    LET p == m.params
        v == o.X
        import_cost == SumOfHours(p.hours, [i \in p.hours |-> v.y[i] * (p.b[i] + p.GI)])
        export_rev == SumOfHours(p.hours, [i \in p.hours |-> v.z[i] * (p.s[i] - p.GE)])
        served == [i \in p.hours |-> v.x[i] + v.y[i] - v.z[i]]
    IN  [objective |-> ObjVal1a(m.lp, v),
         import_cost |-> import_cost,
         export_revenue |-> export_rev,
         net_profit |-> export_rev - import_cost,
         import |-> [i \in p.hours |-> v.y[i]],
         export |-> [i \in p.hours |-> v.z[i]],
         pv |-> [i \in p.hours |-> v.x[i]],
         demand_served |-> served,
         total_import |-> SumOfHours(p.hours, v.y),
         total_export |-> SumOfHours(p.hours, v.z),
         total_demand_served |-> SumOfHours(p.hours, served),
         dual_daily_demand |-> Pi,
         dual_hourly_balance |-> [i \in p.hours |-> Pi],
         dual_pv_cap |-> [i \in p.hours |-> Pi]] @@ res

\* self.results["status"] = int(self.model.status); if the status is
\* GRB.OPTIMAL: self._save_results()
store_1a(mb, o) ==
    [mb EXCEPT !.results =
         IF o.status = GRB_OPTIMAL
         THEN save_results_1a(mb, o, DictSet(mb.results, "status", o.status))
         ELSE DictSet(mb.results, "status", o.status)]

\* self.model.optimize() and what run() does with the outcome
solve_1a(mb, tie) == store_1a(mb, optimize_1a(mb.lp, tie))

\* build_model raises: a key it reads is missing from params, or pv, b or s
\* has no entry for one of the hours
build_model_1a_raises(params) ==
    \/ MissingKey(params, {"hours", "pv", "b", "s", "GE", "GI", "D"})
    \/ LacksHour(params, {"pv", "b", "s"})

\* OptimizationModel1a.run: the instance after run(); when build_model
\* raises, run() ends there and the instance is as __init__ left it
run_1a(m, tie) ==
    IF ~m.built /\ build_model_1a_raises(m.params) THEN m
    ELSE solve_1a(IF m.built THEN m ELSE build_model_1a(m), tie)

\* ---------------------------------------------------------------------
\* OptimizationModel1b
\* ---------------------------------------------------------------------
\* params of 1b; tolerance is an optional key (numerators over RatioDen^2)
Params1b(hours, pv, b, s, GE, GI, ref_load, d_hour, lam) ==
    [hours |-> hours, pv |-> pv, b |-> b, s |-> s, GE |-> GE, GI |-> GI,
     ref_load |-> ref_load, d_hour |-> d_hour, lambda_discomfort |-> lam]

\* x, y, z, served, u of one hour (l is declared, never constrained, never read)
VarsFlex == [x : Qty, y : Qty, z : Qty, served : Qty, u : Qty]

\* served = addVars(hours, lb=0, ub=d_hour)
ServedBound(lp, i, o) == o.served <= lp.d_hour

\* a balance that also keeps the export within the PV used, as 1a does
Balance1b_ExportWithinPv(lp, i, o) == o.served = o.x + o.y - o.z /\ o.z <= o.x

\* Balance of 1b: served[i] == x[i] + y[i] - z[i]
Balance1b(lp, i, o) == o.served = o.x + o.y - o.z

\* Dev_pos: u[i] >= served[i] - ref_load[i] - tol[i]
Dev_pos(lp, i, o) ==
    RatioDen * RatioDen * o.u >= RatioDen * RatioDen * o.served - RatioDen * lp.ref_load[i] - lp.tol[i]

\* the lower side of the band left open
Dev_neg_Free(lp, i, o) == o.u >= 0

\* Dev_neg: u[i] >= ref_load[i] - served[i] - tol[i]
Dev_neg(lp, i, o) ==
    RatioDen * RatioDen * o.u >= RatioDen * lp.ref_load[i] - RatioDen * RatioDen * o.served - lp.tol[i]

\* the hourly term of the objective: z*(s-GE) - y*(b+GI) - lam*u
GainFlex(lp, i, o) ==
    o.z * (lp.s[i] - lp.GE) - o.y * (lp.b[i] + lp.GI) - lp.lam * o.u

\* a default band of 1 kWh instead of none
ToleranceOf_Wide(params) ==
    IF "tolerance" \in DOMAIN params THEN params.tolerance
    ELSE [i \in params.hours |-> RatioDen * RatioDen]

\* tol = self.params.get("tolerance", {i: 0.0 for i in hours})
ToleranceOf(params) ==
    IF "tolerance" \in DOMAIN params THEN params.tolerance ELSE [i \in params.hours |-> 0]

\* OptimizationModel1b.build_model
build_model_1b(m) ==
    [m EXCEPT !.built = TRUE,
              !.lp = [hours |-> m.params.hours, pv |-> m.params.pv, b |-> m.params.b,
                      s |-> m.params.s, GE |-> m.params.GE, GI |-> m.params.GI,
                      ref_load |-> m.params.ref_load, d_hour |-> m.params.d_hour,
                      lam |-> m.params.lambda_discomfort, tol |-> ToleranceOf(m.params)]]

Edges1b(lp, i, R) ==
    LET opts == {v \in VarsFlex : /\ ServedBound(lp, i, v)
                                  /\ PVcap(lp, i, v)
                                  /\ Balance1b(lp, i, v)
                                  /\ Dev_pos(lp, i, v)
                                  /\ Dev_neg(lp, i, v)}
    IN  {[s |-> r, edges |-> {[to |-> r, gain |-> GainFlex(lp, i, o), pt |-> o] : o \in opts}]
         : r \in R}

Problem1b(lp) ==
    LET E(h, R) == Edges1b(lp, h, R)
        stages == StagesFrom(E, 0, {0})
    IN  [inits |-> {[s |-> 0, gain |-> 0]}, stages |-> stages, finals |-> {0}]

Homogeneous1b(lp) ==
    [lp EXCEPT !.pv = [i \in Hours |-> 0], !.ref_load = [i \in Hours |-> 0],
               !.tol = [i \in Hours |-> 0], !.d_hour = 0]

\* the hourly arrays of a flexible-load solution path
FlexPoint(path) ==
    [x |-> Hourly(path, LAMBDA q : q.x),
     y |-> Hourly(path, LAMBDA q : q.y),
     z |-> Hourly(path, LAMBDA q : q.z),
     served |-> Hourly(path, LAMBDA q : q.served),
     u |-> Hourly(path, LAMBDA q : q.u)]

\* model.optimize() on the built 1b problem
optimize_1b(lp, tie) ==
    Solved(SolverOutcome(Problem1b(lp), Problem1b(Homogeneous1b(lp)), tie), FlexPoint)

\* an objective that leaves the discomfort term out
ObjValFlex_NoPenalty(lp, v) ==
    SumOver([i \in Hours |-> v.z[i] * (lp.s[i] - lp.GE) - v.y[i] * (lp.b[i] + lp.GI)])

\* the objective value the solver reports for a flexible-load point
ObjValFlex(lp, v) ==
    SumOver([i \in Hours |-> v.z[i] * (lp.s[i] - lp.GE) - v.y[i] * (lp.b[i] + lp.GI)
                             - lp.lam * v.u[i]])

\* the fields 1b, 1c and 2b save alike: breakdown, hourly primals, totals
SaveFlexCommon(p, v) ==
    LET import_cost == SumOver([i \in Hours |-> v.y[i] * (p.b[i] + p.GI)])
        export_rev == SumOver([i \in Hours |-> v.z[i] * (p.s[i] - p.GE)])
        discomfort == SumOver([i \in Hours |-> p.lambda_discomfort * v.u[i]])
    IN  [import_cost |-> import_cost,
         export_revenue |-> export_rev,
         discomfort_penalty |-> discomfort,
         import |-> [i \in p.hours |-> v.y[i]],
         export |-> [i \in p.hours |-> v.z[i]],
         pv |-> [i \in p.hours |-> v.x[i]],
         served |-> [i \in p.hours |-> v.served[i]],
         deviation |-> [i \in p.hours |-> v.u[i]],
         reference_load |-> [i \in p.hours |-> p.ref_load[i]],
         total_import |-> SumOver(v.y),
         total_export |-> SumOver(v.z),
         total_served |-> SumOver(v.served),
         total_deviation |-> SumOver(v.u)]

\* OptimizationModel1b._save_results
save_results_1b(m, o, res) ==
    LET common == SaveFlexCommon(m.params, o.X)
    IN  [objective |-> ObjValFlex(m.lp, o.X),
         net_profit |-> common.export_revenue - common.import_cost - common.discomfort_penalty,
         dual_pv_cap |-> [i \in m.params.hours |-> Pi],
         dual_balance |-> [i \in m.params.hours |-> Pi],
         dual_dev_pos |-> [i \in m.params.hours |-> Pi],
         dual_dev_neg |-> [i \in m.params.hours |-> Pi]] @@ common @@ res

\* self.results["status"] = int(self.model.status); if the status is
\* GRB.OPTIMAL: self._save_results()
store_1b(mb, o) ==
    [mb EXCEPT !.results =
         IF o.status = GRB_OPTIMAL
         THEN save_results_1b(mb, o, DictSet(mb.results, "status", o.status))
         ELSE DictSet(mb.results, "status", o.status)]

\* self.model.optimize() and what run() does with the outcome
solve_1b(mb, tie) == store_1b(mb, optimize_1b(mb.lp, tie))

\* OptimizationModel1b.run
run_1b(m, tie) == solve_1b(IF m.built THEN m ELSE build_model_1b(m), tie)

\* ---------------------------------------------------------------------
\* OptimizationModel1c
\* ---------------------------------------------------------------------
\* params of 1c and 2b: storage is a reference to the loaded storage spec,
\* passed as a one-element list or as the bare dict (kind)
ParamsBat(flex, storage, prefs) ==
    [storage |-> storage, storage_preferences |-> prefs] @@ flex

\* storage = params["storage"][0] if isinstance(params["storage"], list) else params["storage"]
StorageOf(params, hp) == hp[params.storage.ref]

\* prefs = params["storage_preferences"][0] if list else params["storage_preferences"]
PrefsOf(params) == params.storage_preferences.val

\* S with the field f added, for every value of Dom that P accepts
Extend(S, f, Dom, P(_)) ==
    UNION {{(f :> q) @@ a : q \in {q2 \in Dom : P((f :> q2) @@ a)}} : a \in S}

\* the balance with the charging term left out
BalanceBat_NoCharge(lp, i, o) == o.served = o.x + o.y + o.discharge - o.z

\* Balance of 1c and 2b: served == x + y + discharge - z - charge
BalanceBat(lp, i, o) == o.served = o.x + o.y + o.discharge - o.z - o.charge

\* Dev_pos, Dev_neg of 1c and 2b: no tolerance
Dev_pos_strict(lp, i, o) == RatioDen * o.u >= RatioDen * o.served - lp.ref_load[i]

Dev_neg_strict(lp, i, o) == RatioDen * o.u >= lp.ref_load[i] - RatioDen * o.served

\* charge declared without its upper bound
ChargeBound_Free(lp, i, o) == o.charge >= 0

\* charge = addVars(hours, lb=0, ub=p_ch_max); p_ch_max = ratio * cap
ChargeBound(lp, i, o) == RatioDen * o.charge <= lp.p_ch_max

\* discharge = addVars(hours, lb=0, ub=p_dis_max)
DischargeBound(lp, i, o) == RatioDen * o.discharge <= lp.p_dis_max

\* soc = addVars(hours, lb=0, ub=cap)
SocBound(lp, i, o) == o.soc <= lp.cap

\* soc == prev + eta_c*charge - (1/eta_d)*discharge, prev a numerator over
\* RatioDen, the whole equation multiplied by RatioDen * eta_d
SocStep(lp, prev, o) ==
    RatioDen * lp.eta_d * o.soc
        = lp.eta_d * prev + lp.eta_c * lp.eta_d * o.charge
          - RatioDen * RatioDen * o.discharge

\* SOC_init of 1c: soc[0] == soc_init + eta_c*charge[0] - (1/eta_d)*discharge[0]
SOC_init(lp, o) == SocStep(lp, lp.soc_init, o)

\* the dynamics with the discharge term left out
SOC_dyn_NoDischarge(lp, prev_soc, o) ==
    SocStep(lp, RatioDen * prev_soc, [o EXCEPT !.discharge = 0])

\* SOC_dyn: soc[i] == soc[i-1] + eta_c*charge[i] - (1/eta_d)*discharge[i], i > 0
SOC_dyn(lp, prev_soc, o) == SocStep(lp, RatioDen * prev_soc, o)

\* no terminal condition on the soc
SOC_final_Free(lp, last_soc) == last_soc >= 0

\* SOC_final of 1c: soc[max(hours)] == soc_final
SOC_final(lp, last_soc) == RatioDen * last_soc = lp.soc_final

\* a build that takes the tolerance band off the reference load
build_model_1c_Band(m, hp) ==
    LET storage == StorageOf(m.params, hp)
        prefs == PrefsOf(m.params)
        cap == storage.storage_capacity_kWh
    IN  [m EXCEPT !.built = TRUE,
                  !.lp = [hours |-> m.params.hours, pv |-> m.params.pv, b |-> m.params.b,
                          s |-> m.params.s, GE |-> m.params.GE, GI |-> m.params.GI,
                          ref_load |-> [i \in m.params.hours |->
                                          m.params.ref_load[i] - (ToleranceOf(m.params)[i] \div RatioDen)],
                          d_hour |-> m.params.d_hour,
                          lam |-> m.params.lambda_discomfort,
                          cap |-> cap,
                          eta_c |-> storage.charging_efficiency,
                          eta_d |-> storage.discharging_efficiency,
                          p_ch_max |-> storage.max_charging_power_ratio * cap,
                          p_dis_max |-> storage.max_discharging_power_ratio * cap,
                          soc_init |-> prefs.initial_soc_ratio * cap,
                          soc_final |-> prefs.final_soc_ratio * cap]]

\* OptimizationModel1c.build_model
build_model_1c(m, hp) ==
    LET storage == StorageOf(m.params, hp)
        prefs == PrefsOf(m.params)
        cap == storage.storage_capacity_kWh
    IN  [m EXCEPT !.built = TRUE,
                  !.lp = [hours |-> m.params.hours, pv |-> m.params.pv, b |-> m.params.b,
                          s |-> m.params.s, GE |-> m.params.GE, GI |-> m.params.GI,
                          ref_load |-> m.params.ref_load, d_hour |-> m.params.d_hour,
                          lam |-> m.params.lambda_discomfort,
                          cap |-> cap,
                          eta_c |-> storage.charging_efficiency,
                          eta_d |-> storage.discharging_efficiency,
                          p_ch_max |-> storage.max_charging_power_ratio * cap,
                          p_dis_max |-> storage.max_discharging_power_ratio * cap,
                          soc_init |-> prefs.initial_soc_ratio * cap,
                          soc_final |-> prefs.final_soc_ratio * cap]]

\* the values of x, y, z, charge, discharge, served, u of hour i in 1c
HourOpts1c(lp, i) ==
    LET flows == {v \in [x : Qty, y : Qty, z : Qty, charge : Qty, discharge : Qty] :
                    /\ PVcap(lp, i, v)
                    /\ ChargeBound(lp, i, v)
                    /\ DischargeBound(lp, i, v)}
        BalOk(o) == ServedBound(lp, i, o) /\ BalanceBat(lp, i, o)
        DevOk(o) == Dev_pos_strict(lp, i, o) /\ Dev_neg_strict(lp, i, o)
    IN  Extend(Extend(flows, "served", Qty, BalOk), "u", Qty, DevOk)

\* the state is the hour's soc; before hour 0 it is the marker "init"
Edges1c(lp, i, R) ==
    LET opts == HourOpts1c(lp, i)
        Link(r, o) == /\ SocBound(lp, i, o)
                      /\ IF i = 0 THEN SOC_init(lp, o) ELSE SOC_dyn(lp, r, o)
    IN  {[s |-> r,
          edges |-> {[to |-> o.soc, gain |-> GainFlex(lp, i, o), pt |-> o]
                     : o \in Extend(opts, "soc", Qty, LAMBDA q : Link(r, q))}]
         : r \in R}

Problem1c(lp) ==
    LET E(h, R) == Edges1c(lp, h, R)
        stages == StagesFrom(E, 0, {"init"})
        last == Targets(stages[NumHours])
    IN  [inits |-> {[s |-> "init", gain |-> 0]},
         stages |-> stages,
         finals |-> {r \in last : SOC_final(lp, r)}]

Homogeneous1c(lp) ==
    [lp EXCEPT !.pv = [i \in Hours |-> 0], !.ref_load = [i \in Hours |-> 0], !.d_hour = 0,
               !.cap = 0, !.p_ch_max = 0, !.p_dis_max = 0, !.soc_init = 0, !.soc_final = 0]

\* the hourly arrays of a battery solution path
BatPoint(path) ==
    [charge |-> Hourly(path, LAMBDA q : q.charge),
     discharge |-> Hourly(path, LAMBDA q : q.discharge),
     soc |-> Hourly(path, LAMBDA q : q.soc)] @@ FlexPoint(path)

\* model.optimize() on the built 1c problem
optimize_1c(lp, tie) ==
    Solved(SolverOutcome(Problem1c(lp), Problem1c(Homogeneous1c(lp)), tie), BatPoint)

\* python min(a, b)
Min(a, b) == IF a <= b THEN a ELSE b

\* the battery fields 1c and 2b save alike
SaveBatCommon(p, v) ==
    [charge |-> [i \in p.hours |-> v.charge[i]],
     discharge |-> [i \in p.hours |-> v.discharge[i]],
     soc |-> [i \in p.hours |-> v.soc[i]],
     total_charge |-> SumOver(v.charge),
     total_discharge |-> SumOver(v.discharge),
     self_consumption |-> SumOver([i \in Hours |-> Min(v.x[i], v.served[i])]),
     dual_pv_cap |-> [i \in p.hours |-> Pi],
     dual_balance |-> [i \in p.hours |-> Pi],
     dual_soc_dyn |-> [i \in {j \in p.hours : j > 0} |-> Pi],
     dual_soc_init |-> Pi,
     dual_soc_final |-> Pi]

\* OptimizationModel1c._save_results
save_results_1c(m, o, res) ==
    LET common == SaveFlexCommon(m.params, o.X)
    IN  [objective |-> ObjValFlex(m.lp, o.X),
         net_profit |-> common.export_revenue - common.import_cost - common.discomfort_penalty]
        @@ SaveBatCommon(m.params, o.X) @@ common @@ res

\* self.results["status"] = int(self.model.status); if the status is
\* GRB.OPTIMAL: self._save_results()
store_1c(mb, o) ==
    [mb EXCEPT !.results =
         IF o.status = GRB_OPTIMAL
         THEN save_results_1c(mb, o, DictSet(mb.results, "status", o.status))
         ELSE DictSet(mb.results, "status", o.status)]

\* self.model.optimize() and what run() does with the outcome
solve_1c(mb, tie) == store_1c(mb, optimize_1c(mb.lp, tie))

\* OptimizationModel1c.run
run_1c(m, hp, tie) == solve_1c(IF m.built THEN m ELSE build_model_1c(m, hp), tie)

\* ---------------------------------------------------------------------
\* OptimizationModel2b
\* ---------------------------------------------------------------------
\* hours of a year and of a day in T_max = battery_lifetime_yrs * 365 * 24
DaysPerYear == 365

HoursPerDay == 24

\* SOC_init of 2b: soc[0] == soc_init*cap*Bat_scale + eta_c*charge[0] - (1/eta_d)*discharge[0]
SOC_init_scaled(lp, scale, o) == SocStep(lp, lp.soc_init * lp.cap * scale, o)

\* the terminal soc taken from the whole battery, whatever the scale
SOC_final_scaled_Unscaled(lp, scale, last_soc) == RatioDen * last_soc = lp.soc_final * lp.cap

\* SOC_final of 2b: soc[max(hours)] == soc_final * cap * Bat_scale
SOC_final_scaled(lp, scale, last_soc) == RatioDen * last_soc = lp.soc_final * lp.cap * scale

\* SOC_cap: soc[i] <= cap * Bat_scale
SOC_cap(lp, scale, o) == o.soc <= lp.cap * scale

\* Charge_cap: charge[i] <= p_ch_max * Bat_scale
Charge_cap(lp, scale, o) == RatioDen * o.charge <= lp.p_ch_max * scale

\* Discharge_cap: discharge[i] <= p_dis_max * Bat_scale
Discharge_cap(lp, scale, o) == RatioDen * o.discharge <= lp.p_dis_max * scale

\* Battery_turnoff: Bat_cutoff[i] * i <= T_max, Bat_cutoff[i] in [0, cutoff_ub]
Battery_turnoff(lp, i) == \E cutoff \in 0..lp.cutoff_ub : cutoff * i <= lp.T_max

\* the investment term of the objective: - Bat_cost * cap * Bat_scale
GainScale(lp, scale) == 0 - lp.Bat_cost * lp.cap * scale

\* OptimizationModel2b.build_model
build_model_2b(m, hp) ==
    LET storage == StorageOf(m.params, hp)
        prefs == PrefsOf(m.params)
        cap == storage.storage_capacity_kWh
    IN  [m EXCEPT !.built = TRUE,
                  !.lp = [hours |-> m.params.hours, pv |-> m.params.pv, b |-> m.params.b,
                          s |-> m.params.s, GE |-> m.params.GE, GI |-> m.params.GI,
                          ref_load |-> m.params.ref_load, d_hour |-> m.params.d_hour,
                          lam |-> m.params.lambda_discomfort,
                          cap |-> cap,
                          eta_c |-> storage.charging_efficiency,
                          eta_d |-> storage.discharging_efficiency,
                          p_ch_max |-> storage.max_charging_power_ratio * cap,
                          p_dis_max |-> storage.max_discharging_power_ratio * cap,
                          soc_init |-> prefs.initial_soc_ratio,
                          soc_final |-> prefs.final_soc_ratio,
                          T_max |-> storage.battery_lifetime_yrs * DaysPerYear * HoursPerDay,
                          Bat_cost |-> storage.battery_cost_per_kWh,
                          cutoff_ub |-> 1]]

\* the values of x, y, z, charge, discharge, served, u of hour i at a scale
HourOpts2b(lp, i, scale) ==
    LET flows == {v \in [x : Qty, y : Qty, z : Qty, charge : Qty, discharge : Qty] :
                    /\ PVcap(lp, i, v)
                    /\ Charge_cap(lp, scale, v)
                    /\ Discharge_cap(lp, scale, v)
                    /\ Battery_turnoff(lp, i)}
        BalOk(o) == ServedBound(lp, i, o) /\ BalanceBat(lp, i, o)
        DevOk(o) == Dev_pos_strict(lp, i, o) /\ Dev_neg_strict(lp, i, o)
    IN  Extend(Extend(flows, "served", Qty, BalOk), "u", Qty, DevOk)

\* the state is the pair of Bat_scale and the hour's soc ("init" before hour 0)
Edges2b(lp, i, R) ==
    LET Link(r, o) == /\ SOC_cap(lp, r.scale, o)
                      /\ IF i = 0 THEN SOC_init_scaled(lp, r.scale, o)
                                  ELSE SOC_dyn(lp, r.soc, o)
        From(k, S) ==
            LET opts == HourOpts2b(lp, i, k)
            IN  {[s |-> r,
                  edges |-> {[to |-> [scale |-> k, soc |-> o.soc],
                              gain |-> GainFlex(lp, i, o), pt |-> [Bat_scale |-> k] @@ o]
                             : o \in Extend(opts, "soc", Qty, LAMBDA q : Link(r, q))}]
                 : r \in S}
    IN  UNION {From(k, {r \in R : r.scale = k}) : k \in {r.scale : r \in R}}

Problem2b(lp) ==
    LET E(h, R) == Edges2b(lp, h, R)
        starts == {[scale |-> k, soc |-> "init"] : k \in Qty}
        stages == StagesFrom(E, 0, starts)
        last == Targets(stages[NumHours])
    IN  [inits |-> {[s |-> r, gain |-> GainScale(lp, r.scale)] : r \in starts},
         stages |-> stages,
         finals |-> {r \in last : SOC_final_scaled(lp, r.scale, r.soc)}]

Homogeneous2b(lp) ==
    [lp EXCEPT !.pv = [i \in Hours |-> 0], !.ref_load = [i \in Hours |-> 0], !.d_hour = 0,
               !.T_max = 0, !.cutoff_ub = 0]

\* the values the solver holds after an optimal 2b solve
ScaledBatPoint(path) == [Bat_scale |-> path[1].Bat_scale] @@ BatPoint(path)

\* model.optimize() on the built 2b problem
optimize_2b(lp, tie) ==
    Solved(SolverOutcome(Problem2b(lp), Problem2b(Homogeneous2b(lp)), tie), ScaledBatPoint)

\* model.ObjVal of 2b
ObjVal2b(lp, v) == ObjValFlex(lp, v) + GainScale(lp, v.Bat_scale)

\* self.params["storage"][0] in _save_results
StorageItem0(params, hp) == hp[params.storage.ref]

\* self.params["storage"][0] of _save_results raises KeyError on a storage
\* given as the bare dict
save_results_2b_raises(params) == params.storage.kind # "list"

\* OptimizationModel2b._save_results
save_results_2b(m, hp, o, res) ==
    LET common == SaveFlexCommon(m.params, o.X)
        st == StorageItem0(m.params, hp)
        battery_cost == st.battery_cost_per_kWh * st.storage_capacity_kWh * o.X.Bat_scale
    IN  [objective |-> ObjVal2b(m.lp, o.X),
         battery_cost |-> battery_cost,
         net_profit |-> common.export_revenue - common.import_cost
                        - common.discomfort_penalty - battery_cost,
         battery_scale |-> o.X.Bat_scale,
         dual_dev_pos |-> [i \in m.params.hours |-> Pi],
         dual_dev_neg |-> [i \in m.params.hours |-> Pi],
         dual_soc_cap |-> [i \in m.params.hours |-> Pi],
         dual_charge_cap |-> [i \in m.params.hours |-> Pi],
         dual_discharge_cap |-> [i \in m.params.hours |-> Pi]]
        @@ SaveBatCommon(m.params, o.X) @@ common @@ res

\* the end of run() without the status check: a result key is written
\* whatever the status
store_2b_Unguarded(mb, hp, o) ==
    [mb EXCEPT !.results =
         IF o.status = GRB_OPTIMAL /\ ~save_results_2b_raises(mb.params)
         THEN save_results_2b(mb, hp, o, DictSet(mb.results, "status", o.status))
         ELSE IF o.status = GRB_OPTIMAL THEN DictSet(mb.results, "status", o.status)
         ELSE DictSet(DictSet(mb.results, "status", o.status), "objective", "None")]

\* self.results["status"] = int(self.model.status); if the status is
\* GRB.OPTIMAL: self._save_results(), which writes its first key after it
\* has read the storage: when that read raises, the status is all there is
store_2b(mb, hp, o) ==
    [mb EXCEPT !.results =
         IF o.status = GRB_OPTIMAL /\ ~save_results_2b_raises(mb.params)
         THEN save_results_2b(mb, hp, o, DictSet(mb.results, "status", o.status))
         ELSE DictSet(mb.results, "status", o.status)]

\* self.model.optimize() and what run() does with the outcome
solve_2b(mb, hp, tie) == store_2b(mb, hp, optimize_2b(mb.lp, tie))

\* build_model raises: a key it reads is missing from params, from the
\* storage entry or from the storage preferences, or an hourly array has no
\* entry for one of the hours
build_model_2b_raises(params, hp) ==
    \/ MissingKey(params, {"hours", "pv", "b", "s", "GE", "GI", "ref_load", "d_hour",
                           "lambda_discomfort", "storage", "storage_preferences"})
    \/ LacksHour(params, {"pv", "b", "s", "ref_load"})
    \/ MissingKey(StorageOf(params, hp),
                  {"storage_capacity_kWh", "charging_efficiency", "discharging_efficiency",
                   "max_charging_power_ratio", "max_discharging_power_ratio",
                   "battery_lifetime_yrs", "battery_cost_per_kWh"})
    \/ MissingKey(PrefsOf(params), {"initial_soc_ratio", "final_soc_ratio"})

\* a run() that writes a status before it builds
run_2b_StatusFirst(m, hp, tie) ==
    IF ~m.built /\ build_model_2b_raises(m.params, hp)
    THEN [m EXCEPT !.results = DictSet(@, "status", 1)]
    ELSE solve_2b(IF m.built THEN m ELSE build_model_2b(m, hp), hp, tie)

\* OptimizationModel2b.run: the instance after run(); when build_model
\* raises, run() ends there and the instance is as __init__ left it
run_2b(m, hp, tie) ==
    IF ~m.built /\ build_model_2b_raises(m.params, hp) THEN m
    ELSE solve_2b(IF m.built THEN m ELSE build_model_2b(m, hp), hp, tie)

\* run() has raised out of build_model: the instance was never built
BuildRaised(model) == ~model.built

\* run() has raised out of _save_results: the solve was optimal and the
\* results hold the status alone
SaveRaised(model) ==
    /\ model.built
    /\ model.cls = "2b"
    /\ model.results = [status |-> GRB_OPTIMAL]

\* ---------------------------------------------------------------------
\* runner: model 1a
\* ---------------------------------------------------------------------
\* scenario argument of run_optimization_1a: None or a dict of overrides
Scenarios == {EmptyDict, [GE |-> 500], [GI |-> 0, GE |-> 0]}

DictGet(d, k, default) == IF k \in DOMAIN d THEN d[k] ELSE default

\* run_optimization_1a(scenario)
run_optimization_1a ==
    /\ pc = "idle"
    /\ \E scenario \in Scenarios :
         LET bus == load_bus_params(data)
             usage == load_usage_preferences(data)
             GI == DictGet(scenario, "GI", bus.import_tariff)
             GE == DictGet(scenario, "GE", bus.export_tariff)
             params == Params1a(Hours, PvOf(data), bus.energy_price, bus.energy_price,
                                GI, GE, usage.load_preferences[1].min_total_energy)
         IN  \E opt \in {run_1a(NewModel("1a", params), solver)} :
               /\ models' = <<opt>>
               /\ ret' = opt.results
               /\ args' = [fn |-> "run_optimization_1a", scenario |-> scenario]
    /\ pc' = "returned"
    /\ UNCHANGED <<data, solver, loc, results_all, heap>>

\* a day of 24 hours with flat PV 1.0 and flat prices 1.0, GI = GE = 0.1,
\* D = 10, given to the class directly
FlatDayParams1a ==
    Params1a(0 .. 23, [i \in 0 .. 23 |-> 10], [i \in 0 .. 23 |-> 1000],
             [i \in 0 .. 23 |-> 1000], 100, 100, 10)

\* the flat day, the flat day without the key D, and the flat day with a
\* pv array that ends one hour early
DirectParams1a ==
    {FlatDayParams1a,
     Without(FlatDayParams1a, "D"),
     [FlatDayParams1a EXCEPT !.pv = [i \in 0 .. 22 |-> 10]]}

\* opt = OptimizationModel1a(params); opt.run()
OptimizationModel1a_run ==
    /\ pc = "idle"
    /\ \E params \in DirectParams1a :
         \E opt \in {run_1a(NewModel("1a", params), solver)} :
             /\ models' = <<opt>>
             /\ ret' = IF BuildRaised(opt) THEN "KeyError" ELSE opt.results
             /\ pc' = IF BuildRaised(opt) THEN "raised" ELSE "returned"
    /\ args' = [fn |-> "OptimizationModel1a"]
    /\ UNCHANGED <<data, solver, loc, results_all, heap>>

\* ---- run_export_tariff_sweep(start, stop, step) ----
\* 1e-9 is 1/EpsDen of the price unit
EpsDen == 1000000

\* ge <= stop + 1e-9, for a stop of stop + nano/EpsDen thousandths
WithinStopNano(ge, stop, nano) == ge * EpsDen <= stop * EpsDen + nano + 1

\* ge <= stop + 1e-9
WithinStop(ge, stop) == WithinStopNano(ge, stop, 0)

\* the part of the argument stop below a thousandth, in 1/EpsDen of one
StopNano(a) == DictGet(a, "stop_nano", 0)

\* a loop that steps by the size of step, whatever its sign
AdvanceGE_Abs(ge, step) == ge + IF step < 0 THEN 0 - step ELSE step

\* ge += step
AdvanceGE(ge, step) == ge + step

\* round(ge, 2): the nearest hundredth; a value halfway between two
\* hundredths goes to either, as its binary representation decides
Round2(ge) ==
    LET cent == PriceDen \div 100
        lo == (ge \div cent) * cent
        r == ge % cent
    IN  IF 2 * r < cent THEN {lo} ELSE IF 2 * r > cent THEN {lo + cent} ELSE {lo, lo + cent}

ExportSweepArgs ==
    {[start |-> a, stop |-> b, step |-> c]
     : a \in {0 - 500, 0, 500}, b \in {0, 10, 1000}, c \in {4, 5, 500}}

run_export_tariff_sweep_call ==
    /\ pc = "idle"
    /\ \E a \in ExportSweepArgs :
         /\ args' = [fn |-> "run_export_tariff_sweep"] @@ a
         /\ loc' = [ge |-> a.start]
    /\ pc' = "run_export_tariff_sweep"
    /\ results_all' = <<>>
    /\ UNCHANGED <<data, solver, models, heap, ret>>

\* the loop solving with the tariff's sign reversed
run_export_tariff_sweep_loop_Negated ==
    /\ pc = "run_export_tariff_sweep"
    /\ WithinStopNano(loc.ge, args.stop, StopNano(args))
    /\ Len(results_all) < MaxSweepLen
    /\ LET bus == load_bus_params(data)
           usage == load_usage_preferences(data)
           params == Params1a(Hours, PvOf(data), bus.energy_price, bus.energy_price,
                              bus.import_tariff, 0 - loc.ge,
                              usage.load_preferences[1].min_total_energy)
       IN  \E model \in {run_1a(NewModel("1a", params), solver)} :
           /\ \E tag \in Round2(loc.ge) :
                results_all' = Append(results_all, DictSet(model.results, "GE", tag))
           /\ models' = Append(models, model)
    /\ loc' = [loc EXCEPT !.ge = AdvanceGE(@, args.step)]
    /\ UNCHANGED <<data, solver, pc, args, heap, ret>>

run_export_tariff_sweep_loop ==
    /\ pc = "run_export_tariff_sweep"
    /\ WithinStopNano(loc.ge, args.stop, StopNano(args))
    /\ Len(results_all) < MaxSweepLen
    /\ LET bus == load_bus_params(data)
           usage == load_usage_preferences(data)
           params == Params1a(Hours, PvOf(data), bus.energy_price, bus.energy_price,
                              bus.import_tariff, loc.ge,
                              usage.load_preferences[1].min_total_energy)
       IN  \E model \in {run_1a(NewModel("1a", params), solver)} :
           /\ \E tag \in Round2(loc.ge) :
                results_all' = Append(results_all, DictSet(model.results, "GE", tag))
           /\ models' = Append(models, model)
    /\ loc' = [loc EXCEPT !.ge = AdvanceGE(@, args.step)]
    /\ UNCHANGED <<data, solver, pc, args, heap, ret>>

run_export_tariff_sweep_return ==
    /\ pc = "run_export_tariff_sweep"
    /\ ~WithinStopNano(loc.ge, args.stop, StopNano(args))
    /\ ret' = results_all
    /\ pc' = "returned"
    /\ UNCHANGED <<data, solver, args, loc, results_all, models, heap>>

\* ---- run_buying_price_sweep() ----
\* the first n elements of a list
Take(s, n) == SubSeq(s, 1, IF Len(s) < n THEN Len(s) ELSE n)

\* factors = [i / 10 for i in range(11)] in 1/RatioDen, cut to the sweep length bound
BuyingFactors == Take([i \in 1 .. 11 |-> i - 1], MaxSweepLen)

\* b = {i: f * s[i] for i in hours}
ScalePrice(f, s) == [i \in Hours |-> (f * s[i]) \div RatioDen]

run_buying_price_sweep_call ==
    /\ pc = "idle"
    /\ args' = [fn |-> "run_buying_price_sweep"]
    /\ loc' = [k |-> 1]
    /\ pc' = "run_buying_price_sweep"
    /\ results_all' = <<>>
    /\ UNCHANGED <<data, solver, models, heap, ret>>

run_buying_price_sweep_loop ==
    /\ pc = "run_buying_price_sweep"
    /\ loc.k <= Len(BuyingFactors)
    /\ LET f == BuyingFactors[loc.k]
           bus == load_bus_params(data)
           usage == load_usage_preferences(data)
           s == bus.energy_price
           params == Params1a(Hours, PvOf(data), ScalePrice(f, s), s,
                              bus.import_tariff, bus.export_tariff,
                              usage.load_preferences[1].min_total_energy)
       IN  \E opt \in {run_1a(NewModel("1a", params), solver)} :
           /\ results_all' = Append(results_all, DictSet(opt.results, "factor", f))
           /\ models' = Append(models, opt)
    /\ loc' = [loc EXCEPT !.k = @ + 1]
    /\ UNCHANGED <<data, solver, pc, args, heap, ret>>

\* the printout loop reads r['factor'] (always set) and r.get('objective'); then return
run_buying_price_sweep_return ==
    /\ pc = "run_buying_price_sweep"
    /\ loc.k > Len(BuyingFactors)
    /\ ret' = results_all
    /\ pc' = "returned"
    /\ UNCHANGED <<data, solver, args, loc, results_all, models, heap>>

\* ---------------------------------------------------------------------
\* runner: model 1b
\* ---------------------------------------------------------------------
\* tol = {i: tolerance_ratio * ref_load[i] for i in hours}
TolBand(tolerance_ratio, ref_load) == [i \in Hours |-> tolerance_ratio * ref_load[i]]

\* the total taken from the weighted penalty instead of the deviations
total_deviation_1b_Weighted(opt, res) ==
    IF "deviation" \in DOMAIN res
    THEN [raised |-> FALSE, model |-> opt,
          value |-> DictSet(res, "total_deviation", res.discomfort_penalty)]
    ELSE [raised |-> TRUE, model |-> opt, value |-> "KeyError"]

\* res["total_deviation"] = sum(res["deviation"].values()); return res
\* (a missing key raises KeyError)
total_deviation_1b(opt, res) ==
    IF "deviation" \in DOMAIN res
    THEN [raised |-> FALSE, model |-> opt,
          value |-> DictSet(res, "total_deviation", SumOver(res.deviation))]
    ELSE [raised |-> TRUE, model |-> opt, value |-> "KeyError"]

\* res = opt.results.copy(); res["omega"] = ...; res["tolerance_ratio"] = ...
tag_1b(opt, lambda_discomfort, tolerance_ratio) ==
    total_deviation_1b(opt, DictSet(DictSet(opt.results, "omega", lambda_discomfort),
                                    "tolerance_ratio", tolerance_ratio))

\* run_optimization_1b(lambda_discomfort, tolerance_ratio): what the call
\* gives back, or the exception it raises
call_run_optimization_1b(d, tie, lambda_discomfort, tolerance_ratio) ==
    LET bus == load_bus_params(d)
        ref_load == RefLoadOf(d)
        params == [tolerance |-> TolBand(tolerance_ratio, ref_load)]
                  @@ Params1b(Hours, PvOf(d), bus.energy_price, bus.energy_price,
                              bus.export_tariff, bus.import_tariff, ref_load,
                              d.max_load_kWh_per_hour, lambda_discomfort)
    IN  tag_1b(run_1b(NewModel("1b", params), tie), lambda_discomfort, tolerance_ratio)

run_optimization_1b ==
    /\ pc = "idle"
    /\ \E lam \in {0, 1500}, tr \in {0, 2} :
         \E r \in {call_run_optimization_1b(data, solver, lam, tr)} :
             /\ args' = [fn |-> "run_optimization_1b", lambda_discomfort |-> lam,
                         tolerance_ratio |-> tr]
             /\ models' = <<r.model>>
             /\ ret' = r.value
             /\ pc' = IF r.raised THEN "raised" ELSE "returned"
    /\ UNCHANGED <<data, solver, loc, results_all, heap>>

\* the 1b parameters of the data files without a tolerance band, and with
\* a band of 0 at every hour
DirectParams1b(d, lambda_discomfort, with_tolerance) ==
    LET bus == load_bus_params(d)
        base == Params1b(Hours, PvOf(d), bus.energy_price, bus.energy_price,
                         bus.export_tariff, bus.import_tariff, RefLoadOf(d),
                         d.max_load_kWh_per_hour, lambda_discomfort)
    IN  IF with_tolerance THEN [tolerance |-> [i \in Hours |-> 0]] @@ base ELSE base

\* the data files with another PV capacity in appliance_params.json
WithPvCapacity(d, max_power_kW) == [d EXCEPT !.max_power_kW = max_power_kW]

\* opt = OptimizationModel1b(params); opt.run()
OptimizationModel1b_run ==
    /\ pc = "idle"
    /\ \E lam \in {0, 1500}, with_tolerance \in BOOLEAN, kw \in {1, data.max_power_kW} :
         \E opt \in {run_1b(NewModel("1b", DirectParams1b(WithPvCapacity(data, kw), lam,
                                                         with_tolerance)), solver)} :
             /\ models' = <<opt>>
             /\ ret' = opt.results
             /\ args' = [fn |-> "OptimizationModel1b", lambda_discomfort |-> lam,
                         with_tolerance |-> with_tolerance, max_power_kW |-> kw]
    /\ pc' = "returned"
    /\ UNCHANGED <<data, solver, loc, results_all, heap>>

\* np.arange(start, stop, step) for step > 0
Arange(start, stop, step) ==
    LET n == IF stop <= start THEN 0 ELSE (stop - start + step - 1) \div step
    IN  [k \in 1 .. n |-> start + (k - 1) * step]

\* omegas = np.arange(0, 4.01, 0.1), cut to the sweep length bound
Omegas1b == Take(Arange(0, 4010, 100), MaxSweepLen)

\* tolerances = [0.0, 0.1, ..., 0.8], cut to the sweep length bound
Tolerances1b == Take(<<0, 1, 2, 3, 4, 5, 6, 7, 8>>, MaxSweepLen)

sweep_1b_call ==
    /\ pc = "idle"
    /\ args' = [fn |-> "sweep_1b"]
    /\ loc' = [t |-> 1, o |-> 1]
    /\ pc' = "sweep_1b"
    /\ results_all' = <<>>
    /\ UNCHANGED <<data, solver, models, heap, ret>>

\* the nested loops the other way round: omega outer, tolerance inner
sweep_1b_loop_OmegaOuter ==
    /\ pc = "sweep_1b"
    /\ loc.t <= Len(Omegas1b)
    /\ \E r \in {call_run_optimization_1b(data, solver, Omegas1b[loc.t], Tolerances1b[loc.o])} :
           /\ models' = Append(models, r.model)
           /\ IF r.raised
              THEN /\ pc' = "raised"
                   /\ ret' = r.value
                   /\ UNCHANGED <<results_all, loc>>
              ELSE /\ results_all' = Append(results_all, r.value)
                   /\ loc' = IF loc.o < Len(Tolerances1b)
                             THEN [loc EXCEPT !.o = @ + 1]
                             ELSE [t |-> loc.t + 1, o |-> 1]
                   /\ UNCHANGED <<pc, ret>>
    /\ UNCHANGED <<data, solver, args, heap>>

\* one pass of the inner loop: res = run_optimization_1b(om, tau); append
sweep_1b_loop ==
    /\ pc = "sweep_1b"
    /\ loc.t <= Len(Tolerances1b)
    /\ \E r \in {call_run_optimization_1b(data, solver, Omegas1b[loc.o], Tolerances1b[loc.t])} :
           /\ models' = Append(models, r.model)
           /\ IF r.raised
              THEN /\ pc' = "raised"
                   /\ ret' = r.value
                   /\ UNCHANGED <<results_all, loc>>
              ELSE /\ results_all' = Append(results_all, r.value)
                   /\ loc' = IF loc.o < Len(Omegas1b)
                             THEN [loc EXCEPT !.o = @ + 1]
                             ELSE [t |-> loc.t + 1, o |-> 1]
                   /\ UNCHANGED <<pc, ret>>
    /\ UNCHANGED <<data, solver, args, heap>>

sweep_1b_return ==
    /\ pc = "sweep_1b"
    /\ loc.t > Len(Tolerances1b)
    /\ ret' = results_all
    /\ pc' = "returned"
    /\ UNCHANGED <<data, solver, args, loc, results_all, models, heap>>

\* ---------------------------------------------------------------------
\* runner and sweep functions: model 1c
\* ---------------------------------------------------------------------
\* the loader builds a fresh storage dict on every load
Alloc(hp, obj) == Append(hp, obj)

\* the params dict the 1c and 2b callers assemble, storage and preferences
\* passed as one-element lists
BatParamsOf(d, storage_ref, b, s, GE, lam) ==
    LET bus == load_bus_params(d)
        app_params == load_appliance_params(d, storage_ref)
        usage == load_usage_preferences(d)
    IN  ParamsBat(Params1b(Hours, PvOf(d), b, s, GE, bus.import_tariff, RefLoadOf(d),
                           app_params.load[1].max_load_kWh_per_hour, lam),
                  app_params.storage,
                  [kind |-> "list", val |-> usage.storage_preferences[1]])

\* run_optimization_1c(lambda_discomfort)
run_optimization_1c ==
    /\ pc = "idle"
    /\ \E lam \in {0, 1500} :
         LET bus == load_bus_params(data)
             hp == Alloc(heap, data.storage)
             params == BatParamsOf(data, Len(hp), bus.energy_price, bus.energy_price,
                                   bus.export_tariff, lam)
         IN  \E opt \in {run_1c(NewModel("1c", params), hp, solver)} :
             /\ heap' = hp
             /\ models' = <<opt>>
             /\ ret' = opt.results
             /\ args' = [fn |-> "run_optimization_1c", lambda_discomfort |-> lam]
    /\ pc' = "returned"
    /\ UNCHANGED <<data, solver, loc, results_all>>

\* res = model.results.copy(); res[key] = value; return res: the model a
\* sweep function ran, the record it returns and the heap after its load
Tagged(hp, model, key, value) ==
    [heap |-> hp, model |-> model, value |-> DictSet(model.results, key, value)]

\* sweep_GE_1c(GE, lambda_discomfort): the model it ran, the record it
\* returns and the heap after its load
sweep_GE_1c(d, hp0, tie, GE, lambda_discomfort) ==
    LET bus == load_bus_params(d)
        hp == Alloc(hp0, d.storage)
        params == BatParamsOf(d, Len(hp), bus.energy_price, bus.energy_price, GE,
                              lambda_discomfort)
    IN  Tagged(hp, run_1c(NewModel("1c", params), hp, tie), "GE", GE)

\* sweep_buying_factor_1c(factor, lambda_discomfort)
sweep_buying_factor_1c(d, hp0, tie, factor, lambda_discomfort) ==
    LET bus == load_bus_params(d)
        hp == Alloc(hp0, d.storage)
        s == bus.energy_price
        params == BatParamsOf(d, Len(hp), ScalePrice(factor, s), s, bus.export_tariff,
                              lambda_discomfort)
    IN  Tagged(hp, run_1c(NewModel("1c", params), hp, tie), "factor", factor)

\* sweep_omega_1c(lambda_discomfort, GE)
sweep_omega_1c(d, hp0, tie, lambda_discomfort, GE) ==
    LET bus == load_bus_params(d)
        hp == Alloc(hp0, d.storage)
        params == BatParamsOf(d, Len(hp), bus.energy_price, bus.energy_price, GE,
                              lambda_discomfort)
    IN  Tagged(hp, run_1c(NewModel("1c", params), hp, tie), "omega", lambda_discomfort)

\* sweep_tolerance_1c(tolerance_ratio, lambda_discomfort, GE)
sweep_tolerance_1c(d, hp0, tie, tolerance_ratio, lambda_discomfort, GE) ==
    LET bus == load_bus_params(d)
        hp == Alloc(hp0, d.storage)
        params == [tolerance |-> TolBand(tolerance_ratio, RefLoadOf(d))]
                  @@ BatParamsOf(d, Len(hp), bus.energy_price, bus.energy_price, GE,
                                 lambda_discomfort)
    IN  Tagged(hp, run_1c(NewModel("1c", params), hp, tie), "tolerance_ratio", tolerance_ratio)

\* np.arange(start, stop + 1e-9, step) for step > 0
ArangeEps(start, stop, step) ==
    LET span == (stop - start) * EpsDen + 1
        n == IF span <= 0 THEN 0 ELSE (span + step * EpsDen - 1) \div (step * EpsDen)
    IN  [k \in 1 .. n |-> start + (k - 1) * step]

GESweepArgs ==
    {[start |-> a, stop |-> b, step |-> c, lambda_discomfort |-> 1500]
     : a \in {0 - 500, 400}, b \in {400, 500}, c \in {100, 500}}

\* ---- run_GE_sweep_1c(start, stop, step, lambda_discomfort) ----
run_GE_sweep_1c_call ==
    /\ pc = "idle"
    /\ \E a \in GESweepArgs :
         /\ args' = [fn |-> "run_GE_sweep_1c"] @@ a
         /\ loc' = [k |-> 1,
                    ge_values |-> Take(ArangeEps(a.start, a.stop, a.step), MaxSweepLen)]
    /\ pc' = "run_GE_sweep_1c"
    /\ results_all' = <<>>
    /\ UNCHANGED <<data, solver, models, heap, ret>>

run_GE_sweep_1c_loop ==
    /\ pc = "run_GE_sweep_1c"
    /\ loc.k <= Len(loc.ge_values)
    /\ LET ge == loc.ge_values[loc.k]
       IN  \E r \in {sweep_GE_1c(data, heap, solver, ge, args.lambda_discomfort)} :
           /\ \E tag \in Round2(ge) :
                results_all' = Append(results_all, DictSet(r.value, "GE", tag))
           /\ models' = Append(models, r.model)
           /\ heap' = r.heap
    /\ loc' = [loc EXCEPT !.k = @ + 1]
    /\ UNCHANGED <<data, solver, pc, args, ret>>

run_GE_sweep_1c_return ==
    /\ pc = "run_GE_sweep_1c"
    /\ loc.k > Len(loc.ge_values)
    /\ ret' = results_all
    /\ pc' = "returned"
    /\ UNCHANGED <<data, solver, args, loc, results_all, models, heap>>

\* the argument value None
None == "None"

\* ---- run_buying_factor_sweep_1c ----
\* the factors argument: None or a list
run_buying_factor_sweep_1c_Args == {None, <<10, 0, 10>>, <<5, 5>>}

\* if factors is None: factors = [...]
run_buying_factor_sweep_1c_Default == <<0, 5, 10>>

run_buying_factor_sweep_1c_call ==
    /\ pc = "idle"
    /\ \E a \in run_buying_factor_sweep_1c_Args, lambda_discomfort \in {1500} :
         /\ args' = [fn |-> "run_buying_factor_sweep_1c", factors |-> a, lambda_discomfort |-> lambda_discomfort]
         /\ loc' = [k |-> 1,
                    factors |-> Take(IF a = None THEN run_buying_factor_sweep_1c_Default ELSE a, MaxSweepLen)]
    /\ pc' = "run_buying_factor_sweep_1c"
    /\ results_all' = <<>>
    /\ UNCHANGED <<data, solver, models, heap, ret>>

run_buying_factor_sweep_1c_loop ==
    /\ pc = "run_buying_factor_sweep_1c"
    /\ loc.k <= Len(loc.factors)
    /\ LET v == loc.factors[loc.k]
       IN  \E r \in {sweep_buying_factor_1c(data, heap, solver, v, args.lambda_discomfort)} :
           /\ results_all' = Append(results_all, DictSet(r.value, "factor", v))
           /\ models' = Append(models, r.model)
           /\ heap' = r.heap
    /\ loc' = [loc EXCEPT !.k = @ + 1]
    /\ UNCHANGED <<data, solver, pc, args, ret>>

run_buying_factor_sweep_1c_return ==
    /\ pc = "run_buying_factor_sweep_1c"
    /\ loc.k > Len(loc.factors)
    /\ ret' = results_all
    /\ pc' = "returned"
    /\ UNCHANGED <<data, solver, args, loc, results_all, models, heap>>

\* ---- run_omega_sweep_1c ----
\* the omegas argument: None or a list
run_omega_sweep_1c_Args == {None, <<3000, 0, 3000>>, <<1000, 1000>>}

\* if omegas is None: omegas = [...]
run_omega_sweep_1c_Default == <<1000, 2000, 3000>>

run_omega_sweep_1c_call ==
    /\ pc = "idle"
    /\ \E a \in run_omega_sweep_1c_Args, GE \in {400, 0 - 500} :
         /\ args' = [fn |-> "run_omega_sweep_1c", omegas |-> a, GE |-> GE]
         /\ loc' = [k |-> 1,
                    omegas |-> Take(IF a = None THEN run_omega_sweep_1c_Default ELSE a, MaxSweepLen)]
    /\ pc' = "run_omega_sweep_1c"
    /\ results_all' = <<>>
    /\ UNCHANGED <<data, solver, models, heap, ret>>

run_omega_sweep_1c_loop ==
    /\ pc = "run_omega_sweep_1c"
    /\ loc.k <= Len(loc.omegas)
    /\ LET v == loc.omegas[loc.k]
       IN  \E r \in {sweep_omega_1c(data, heap, solver, v, args.GE)} :
           /\ results_all' = Append(results_all, DictSet(r.value, "omega", v))
           /\ models' = Append(models, r.model)
           /\ heap' = r.heap
    /\ loc' = [loc EXCEPT !.k = @ + 1]
    /\ UNCHANGED <<data, solver, pc, args, ret>>

run_omega_sweep_1c_return ==
    /\ pc = "run_omega_sweep_1c"
    /\ loc.k > Len(loc.omegas)
    /\ ret' = results_all
    /\ pc' = "returned"
    /\ UNCHANGED <<data, solver, args, loc, results_all, models, heap>>

\* ---- run_tolerance_sweep_1c ----
\* the tolerances argument: None or a list
run_tolerance_sweep_1c_Args == {None, <<8, 2, 8>>, <<4, 4>>}

\* if tolerances is None: tolerances = [...]
run_tolerance_sweep_1c_Default == <<2, 4, 6, 8>>

run_tolerance_sweep_1c_call ==
    /\ pc = "idle"
    /\ \E a \in run_tolerance_sweep_1c_Args, omega \in {1500}, GE \in {400} :
         /\ args' = [fn |-> "run_tolerance_sweep_1c", tolerances |-> a, omega |-> omega, GE |-> GE]
         /\ loc' = [k |-> 1,
                    tolerances |-> Take(IF a = None THEN run_tolerance_sweep_1c_Default ELSE a, MaxSweepLen)]
    /\ pc' = "run_tolerance_sweep_1c"
    /\ results_all' = <<>>
    /\ UNCHANGED <<data, solver, models, heap, ret>>

run_tolerance_sweep_1c_loop ==
    /\ pc = "run_tolerance_sweep_1c"
    /\ loc.k <= Len(loc.tolerances)
    /\ LET v == loc.tolerances[loc.k]
       IN  \E r \in {sweep_tolerance_1c(data, heap, solver, v, args.omega, args.GE)} :
           /\ results_all' = Append(results_all, DictSet(r.value, "tolerance_ratio", v))
           /\ models' = Append(models, r.model)
           /\ heap' = r.heap
    /\ loc' = [loc EXCEPT !.k = @ + 1]
    /\ UNCHANGED <<data, solver, pc, args, ret>>

run_tolerance_sweep_1c_return ==
    /\ pc = "run_tolerance_sweep_1c"
    /\ loc.k > Len(loc.tolerances)
    /\ ret' = results_all
    /\ pc' = "returned"
    /\ UNCHANGED <<data, solver, args, loc, results_all, models, heap>>

\* ---------------------------------------------------------------------
\* runner and sweep functions: model 2b
\* ---------------------------------------------------------------------
\* run_optimization_2b(lambda_discomfort)
run_optimization_2b ==
    /\ pc = "idle"
    /\ \E lam \in {0, 1500} :
         LET bus == load_bus_params(data)
             hp == Alloc(heap, data.storage)
             params == BatParamsOf(data, Len(hp), bus.energy_price, bus.energy_price,
                                   bus.export_tariff, lam)
         IN  \E opt \in {run_2b(NewModel("2b", params), hp, solver)} :
             /\ heap' = hp
             /\ models' = <<opt>>
             /\ ret' = IF BuildRaised(opt) THEN "KeyError" ELSE opt.results
             /\ pc' = IF BuildRaised(opt) THEN "raised" ELSE "returned"
             /\ args' = [fn |-> "run_optimization_2b", lambda_discomfort |-> lam]
    /\ UNCHANGED <<data, solver, loc, results_all>>

\* sweep_omega_2b(lambda_discomfort, GE)
sweep_omega_2b(d, hp0, tie, lambda_discomfort, GE) ==
    LET bus == load_bus_params(d)
        hp == Alloc(hp0, d.storage)
        params == BatParamsOf(d, Len(hp), bus.energy_price, bus.energy_price, GE,
                              lambda_discomfort)
    IN  Tagged(hp, run_2b(NewModel("2b", params), hp, tie), "omega", lambda_discomfort)

\* np.linspace(a, b, n): n evenly spaced values from a to b, to the unit
Linspace(a, b, n) ==
    [k \in 1 .. n |-> IF n = 1 THEN a ELSE a + ((k - 1) * (b - a)) \div (n - 1)]

\* the ends of np.linspace(1.5, 3, steps) in run_omega_sweep_2b
OmegaFrom2b == 1500

OmegaTo2b == 3000

\* ---- run_omega_sweep_2b(GE, steps) ----
run_omega_sweep_2b_call ==
    /\ pc = "idle"
    /\ \E GE \in {400}, steps \in 0 .. MaxSweepLen :
         /\ args' = [fn |-> "run_omega_sweep_2b", GE |-> GE, steps |-> steps]
         /\ loc' = [k |-> 1, omegas |-> Linspace(OmegaFrom2b, OmegaTo2b, steps)]
    /\ pc' = "run_omega_sweep_2b"
    /\ results_all' = <<>>
    /\ UNCHANGED <<data, solver, models, heap, ret>>

run_omega_sweep_2b_loop ==
    /\ pc = "run_omega_sweep_2b"
    /\ loc.k <= Len(loc.omegas)
    /\ LET om == loc.omegas[loc.k]
       IN  \E r \in {sweep_omega_2b(data, heap, solver, om, args.GE)} :
           /\ models' = Append(models, r.model)
           /\ heap' = r.heap
           /\ IF BuildRaised(r.model)
              THEN /\ pc' = "raised"
                   /\ ret' = "KeyError"
                   /\ UNCHANGED <<results_all, loc>>
              ELSE /\ results_all' = Append(results_all, DictSet(r.value, "omega", om))
                   /\ loc' = [loc EXCEPT !.k = @ + 1]
                   /\ UNCHANGED <<pc, ret>>
    /\ UNCHANGED <<data, solver, args>>

run_omega_sweep_2b_return ==
    /\ pc = "run_omega_sweep_2b"
    /\ loc.k > Len(loc.omegas)
    /\ ret' = results_all
    /\ pc' = "returned"
    /\ UNCHANGED <<data, solver, args, loc, results_all, models, heap>>

\* ---- sweep_battery_cost(lambda_discomfort, GE, min_cost, max_cost, steps) ----
BatteryCostArgs ==
    {[lambda_discomfort |-> 1500, GE |-> 400, min_cost |-> a, max_cost |-> 1000, steps |-> n]
     : a \in {120}, n \in 0 .. MaxSweepLen}

\* the loads, storage = app_params["storage"], costs = np.linspace(...)
sweep_battery_cost_call ==
    /\ pc = "idle"
    /\ \E a \in BatteryCostArgs :
         /\ args' = [fn |-> "sweep_battery_cost"] @@ a
         /\ loc' = [k |-> 1, storage |-> Len(heap) + 1,
                    costs |-> Linspace(a.min_cost, a.max_cost, a.steps)]
    /\ heap' = Alloc(heap, data.storage)
    /\ pc' = "sweep_battery_cost"
    /\ results_all' = <<>>
    /\ UNCHANGED <<data, solver, models, ret>>

\* the override that never raises a cost already in the storage dict
SetBatteryCost_Lowest(hp, ref, cost) ==
    [hp EXCEPT ![ref].battery_cost_per_kWh = Min(@, cost)]

\* storage[0]["battery_cost_per_kWh"] = cost
SetBatteryCost(hp, ref, cost) == [hp EXCEPT ![ref].battery_cost_per_kWh = cost]

\* the loop leaving at the first non-optimal point
sweep_battery_cost_loop_Abort ==
    /\ pc = "sweep_battery_cost"
    /\ loc.k <= Len(loc.costs)
    /\ LET cost == loc.costs[loc.k]
           bus == load_bus_params(data)
           hp == [heap EXCEPT ![loc.storage].battery_cost_per_kWh = cost]
           params == BatParamsOf(data, loc.storage, bus.energy_price, bus.energy_price,
                                 args.GE, args.lambda_discomfort)
       IN  \E model \in {run_2b(NewModel("2b", params), hp, solver)} :
           /\ models' = Append(models, model)
           /\ heap' = hp
           /\ IF BuildRaised(model)
              THEN /\ pc' = "raised"
                   /\ ret' = "KeyError"
                   /\ UNCHANGED <<results_all, loc>>
              ELSE /\ results_all' = Append(results_all,
                                            DictSet(model.results, "battery_cost_per_kWh", cost))
                   /\ loc' = [loc EXCEPT !.k = IF model.results.status = GRB_OPTIMAL
                                               THEN @ + 1 ELSE Len(loc.costs) + 1]
                   /\ UNCHANGED <<pc, ret>>
    /\ UNCHANGED <<data, solver, args>>

\* one pass of the loop: override the cost in the loaded storage dict,
\* build params around that same dict, run, copy and tag the results
sweep_battery_cost_loop ==
    /\ pc = "sweep_battery_cost"
    /\ loc.k <= Len(loc.costs)
    /\ LET cost == loc.costs[loc.k]
           bus == load_bus_params(data)
           hp == SetBatteryCost(heap, loc.storage, cost)
           params == BatParamsOf(data, loc.storage, bus.energy_price, bus.energy_price,
                                 args.GE, args.lambda_discomfort)
       IN  \E model \in {run_2b(NewModel("2b", params), hp, solver)} :
           /\ models' = Append(models, model)
           /\ heap' = hp
           /\ IF BuildRaised(model)
              THEN /\ pc' = "raised"
                   /\ ret' = "KeyError"
                   /\ UNCHANGED <<results_all, loc>>
              ELSE /\ results_all' = Append(results_all,
                                            DictSet(model.results, "battery_cost_per_kWh", cost))
                   /\ loc' = [loc EXCEPT !.k = @ + 1]
                   /\ UNCHANGED <<pc, ret>>
    /\ UNCHANGED <<data, solver, args>>

sweep_battery_cost_return ==
    /\ pc = "sweep_battery_cost"
    /\ loc.k > Len(loc.costs)
    /\ ret' = results_all
    /\ pc' = "returned"
    /\ UNCHANGED <<data, solver, args, loc, results_all, models, heap>>

\* the params a caller assembles for 1c and 2b from the data files, storage
\* and storage_preferences as one-element lists or as the bare dicts
DirectParamsBat(d, storage_ref, lambda_discomfort, bare) ==
    LET bus == load_bus_params(d)
        params == BatParamsOf(d, storage_ref, bus.energy_price, bus.energy_price,
                              bus.export_tariff, lambda_discomfort)
    IN  IF bare
        THEN [params EXCEPT !.storage.kind = "dict", !.storage_preferences.kind = "dict"]
        ELSE params

\* opt = OptimizationModel1c(params); opt.run()
OptimizationModel1c_run ==
    /\ pc = "idle"
    /\ \E bare \in BOOLEAN :
         LET hp == Alloc(heap, data.storage)
         IN  \E opt \in {run_1c(NewModel("1c", DirectParamsBat(data, Len(hp), 1500, bare)),
                                hp, solver)} :
             /\ heap' = hp
             /\ models' = <<opt>>
             /\ ret' = opt.results
             /\ args' = [fn |-> "OptimizationModel1c", bare |-> bare]
    /\ pc' = "returned"
    /\ UNCHANGED <<data, solver, loc, results_all>>

\* opt = OptimizationModel2b(params); opt.run()
OptimizationModel2b_run ==
    /\ pc = "idle"
    /\ \E bare \in BOOLEAN :
         LET hp == Alloc(heap, data.storage)
         IN  \E opt \in {run_2b(NewModel("2b", DirectParamsBat(data, Len(hp), 1500, bare)),
                                hp, solver)} :
             /\ heap' = hp
             /\ models' = <<opt>>
             /\ ret' = IF BuildRaised(opt) \/ SaveRaised(opt) THEN "KeyError" ELSE opt.results
             /\ pc' = IF BuildRaised(opt) \/ SaveRaised(opt) THEN "raised" ELSE "returned"
             /\ args' = [fn |-> "OptimizationModel2b", bare |-> bare]
    /\ UNCHANGED <<data, solver, loc, results_all>>

Init ==
    /\ data \in DataSets
    /\ solver \in TieBreaks
    /\ pc = "idle"
    /\ args = EmptyDict
    /\ loc = EmptyDict
    /\ results_all = <<>>
    /\ models = <<>>
    /\ heap = <<>>
    /\ ret = EmptyDict

Next ==
    \/ run_optimization_1a
    \/ OptimizationModel1a_run
    \/ run_export_tariff_sweep_call
    \/ run_export_tariff_sweep_loop
    \/ run_export_tariff_sweep_return
    \/ run_buying_price_sweep_call
    \/ run_buying_price_sweep_loop
    \/ run_buying_price_sweep_return
    \/ run_optimization_1b
    \/ OptimizationModel1b_run
    \/ sweep_1b_call
    \/ sweep_1b_loop
    \/ sweep_1b_return
    \/ run_optimization_1c
    \/ OptimizationModel1c_run
    \/ run_GE_sweep_1c_call
    \/ run_GE_sweep_1c_loop
    \/ run_GE_sweep_1c_return
    \/ run_buying_factor_sweep_1c_call
    \/ run_buying_factor_sweep_1c_loop
    \/ run_buying_factor_sweep_1c_return
    \/ run_omega_sweep_1c_call
    \/ run_omega_sweep_1c_loop
    \/ run_omega_sweep_1c_return
    \/ run_tolerance_sweep_1c_call
    \/ run_tolerance_sweep_1c_loop
    \/ run_tolerance_sweep_1c_return
    \/ run_optimization_2b
    \/ OptimizationModel2b_run
    \/ run_omega_sweep_2b_call
    \/ run_omega_sweep_2b_loop
    \/ run_omega_sweep_2b_return
    \/ sweep_battery_cost_call
    \/ sweep_battery_cost_loop
    \/ sweep_battery_cost_return

Spec == Init /\ [][Next]_vars

\* ---------------------------------------------------------------------
\* a caller that keeps the instance and calls run() again
\* ---------------------------------------------------------------------
\* the classes a caller constructs directly
DirectRuns ==
    {"OptimizationModel1a", "OptimizationModel1b", "OptimizationModel1c", "OptimizationModel2b"}

\* run() of the instance's class
run_of(m, hp, tie) ==
    CASE m.cls = "1a" -> run_1a(m, tie)
      [] m.cls = "1b" -> run_1b(m, tie)
      [] m.cls = "1c" -> run_1c(m, hp, tie)
      [] m.cls = "2b" -> run_2b(m, hp, tie)

\* opt.run() once more on the instance of a direct run, also after a
\* run() that raised; args counts the run() calls and the executions of
\* build_model (one by the first run(), one by every run() that finds
\* _built False)
run_again ==
    /\ pc \in {"returned", "raised"}
    /\ args.fn \in DirectRuns
    /\ DictGet(args, "runs", 1) < MaxRuns
    /\ \E opt \in {run_of(models[1], heap, solver)} :
         /\ models' = <<opt>>
         /\ ret' = IF BuildRaised(opt) \/ SaveRaised(opt) THEN "KeyError" ELSE opt.results
         /\ pc' = IF BuildRaised(opt) \/ SaveRaised(opt) THEN "raised" ELSE "returned"
    /\ args' = DictSet(DictSet(args, "runs", DictGet(args, "runs", 1) + 1),
                       "builds",
                       DictGet(args, "builds", 1) + IF models[1].built THEN 0 ELSE 1)
    /\ UNCHANGED <<data, solver, loc, results_all, heap>>

NextRerun ==
    \/ OptimizationModel1a_run
    \/ OptimizationModel1b_run
    \/ OptimizationModel1c_run
    \/ OptimizationModel2b_run
    \/ run_again

SpecRerun == Init /\ [][NextRerun]_vars

\* ---------------------------------------------------------------------
\* the export tariff sweep called with any start, stop and step
\* ---------------------------------------------------------------------
\* start at or above stop, a stop that lies 1e-9 below a thousandth, steps
\* of either sign and of none
ExportSweepEdgeArgs ==
    {[start |-> a, stop |-> b, stop_nano |-> n, step |-> c]
     : a \in {0, 500}, b \in {0, 500}, n \in {0 - 1, 0}, c \in {0 - 500, 0, 500}}

run_export_tariff_sweep_call_edge ==
    /\ pc = "idle"
    /\ \E a \in ExportSweepEdgeArgs :
         /\ args' = [fn |-> "run_export_tariff_sweep"] @@ a
         /\ loc' = [ge |-> a.start]
    /\ pc' = "run_export_tariff_sweep"
    /\ results_all' = <<>>
    /\ UNCHANGED <<data, solver, models, heap, ret>>

NextExportSweep ==
    \/ run_export_tariff_sweep_call_edge
    \/ run_export_tariff_sweep_loop
    \/ run_export_tariff_sweep_return

\* The part of one iteration of the while loop that moves the loop variable:
\* the condition of line 74 holds and `ge += step` of line 89 is executed.
\* Every run_export_tariff_sweep_loop step is such a step.
run_export_tariff_sweep_advance ==
    /\ pc = "run_export_tariff_sweep"
    /\ WithinStopNano(loc.ge, args.stop, StopNano(args))
    /\ Len(results_all) < MaxSweepLen
    /\ loc' = [loc EXCEPT !.ge = AdvanceGE(@, args.step)]


\* the function runs on: an iteration that can be taken is taken, and the
\* return is reached once the loop condition fails
SpecExportSweep ==
    /\ Init
    /\ [][NextExportSweep]_vars
    /\ WF_loc(run_export_tariff_sweep_advance)
    /\ WF_vars(run_export_tariff_sweep_return)

\* ---------------------------------------------------------------------
\* properties
\* ---------------------------------------------------------------------
NonOptimalCodes == {GRB_INFEASIBLE, GRB_INF_OR_UNBD, GRB_UNBOUNDED}

\* a results dict of a solve that ended optimal
IsOptimal(res) ==
    /\ "status" \in DOMAIN res
    /\ res.status = GRB_OPTIMAL
    /\ "objective" \in DOMAIN res

\* C1: whatever model (1a, 1b, 1c, 2b) has run, if its status is not
\* optimal then its results hold the integer status code and no other key;
\* run() has returned (the model is in the list of models that ran, and
\* its build did not raise).
C1_NonOptimalStatusOnly ==
    \A k \in 1 .. Len(models) :
        LET res == models[k].results
        IN  ~BuildRaised(models[k]) =>
              /\ "status" \in DOMAIN res
              /\ res.status # GRB_OPTIMAL =>
                   /\ res.status \in NonOptimalCodes
                   /\ DOMAIN res = {"status"}

\* a 2b model has run to an unbounded status and holds the status alone
C1_Witness ==
    \E k \in 1 .. Len(models) :
        /\ models[k].cls = "2b"
        /\ models[k].results = [status |-> GRB_UNBOUNDED]

\* how many of ge, ge + step, ge + 2*step, ... are within stop, n at most
RECURSIVE NumWithin(_, _, _, _)
NumWithin(ge, stop, step, n) ==
    IF n = 0 \/ ~WithinStop(ge, stop) THEN 0
    ELSE 1 + NumWithin(ge + step, stop, step, n - 1)

\* the sweeps C2 lists, with the key each tags its records with
C2_TagKey ==
    [run_export_tariff_sweep |-> "GE",
     run_buying_price_sweep |-> "factor",
     run_GE_sweep_1c |-> "GE",
     run_buying_factor_sweep_1c |-> "factor",
     run_omega_sweep_1c |-> "omega",
     run_tolerance_sweep_1c |-> "tolerance_ratio",
     run_omega_sweep_2b |-> "omega",
     sweep_battery_cost |-> "battery_cost_per_kWh"]

\* the number of values the returned sweep went over
C2_NumValues ==
    CASE args.fn = "run_export_tariff_sweep" ->
           NumWithin(args.start, args.stop, args.step, MaxSweepLen)
      [] args.fn = "run_buying_price_sweep" -> Len(BuyingFactors)
      [] args.fn = "run_GE_sweep_1c" -> Len(loc.ge_values)
      [] args.fn = "run_buying_factor_sweep_1c" -> Len(loc.factors)
      [] args.fn = "run_omega_sweep_1c" -> Len(loc.omegas)
      [] args.fn = "run_tolerance_sweep_1c" -> Len(loc.tolerances)
      [] args.fn = "run_omega_sweep_2b" -> args.steps
      [] args.fn = "sweep_battery_cost" -> args.steps

\* C2: a returned sweep of the listed ones has one record per swept value;
\* a record of a non-optimal point holds exactly its status code and its
\* tag; a record of an optimal point holds the solved fields and its tag.
C2_SweepKeepsFailedPoints ==
    (pc = "returned" /\ args.fn \in DOMAIN C2_TagKey) =>
        /\ Len(ret) = C2_NumValues
        /\ \A i \in 1 .. Len(ret) :
             IF ret[i].status = GRB_OPTIMAL
             THEN {"objective", "import", "export", C2_TagKey[args.fn]} \subseteq DOMAIN ret[i]
             ELSE /\ ret[i].status \in NonOptimalCodes
                  /\ DOMAIN ret[i] = {"status", C2_TagKey[args.fn]}

\* the battery-cost sweep has returned with a failed point followed by a
\* solved one
C2_Witness ==
    /\ pc = "returned"
    /\ args.fn = "sweep_battery_cost"
    /\ \E i, j \in 1 .. Len(ret) :
         /\ i < j
         /\ DOMAIN ret[i] = {"status", "battery_cost_per_kWh"}
         /\ ret[j].status = GRB_OPTIMAL

\* C3: run_optimization_1b and sweep_1b never raise: a non-optimal 1b solve
\* comes back as a record with the status code and the omega and
\* tolerance_ratio tags, and sweep_1b goes on with the remaining points.
C3_NonOptimal1bIsData ==
    /\ pc = "raised" => args.fn \notin {"run_optimization_1b", "sweep_1b"}
    /\ (pc = "returned" /\ args.fn = "run_optimization_1b") =>
           {"status", "omega", "tolerance_ratio"} \subseteq DOMAIN ret
    /\ (pc = "returned" /\ args.fn = "sweep_1b") =>
           Len(ret) = Len(Tolerances1b) * Len(Omegas1b)

\* the values run_export_tariff_sweep goes over: start + k*step up to stop
C4_Values ==
    LET n == NumWithin(args.start, args.stop, args.step, MaxSweepLen)
    IN  [i \in 1 .. n |-> args.start + (i - 1) * args.step]

\* C4: run_export_tariff_sweep(start, stop, step) returns one record for
\* every start + k*step not above stop, in ascending order, each tagged with
\* exactly that value under GE and solved with it as export tariff; the
\* call (0.0, 1.0, 0.5) returns the three records tagged 0.0, 0.5, 1.0.
C4_ExportSweepTagsAreValues ==
    (pc = "returned" /\ args.fn = "run_export_tariff_sweep") =>
        /\ Len(ret) = Len(C4_Values)
        /\ \A i \in 1 .. Len(ret) :
             /\ ret[i].GE = C4_Values[i]
             /\ models[i].params.GE = C4_Values[i]
             /\ i > 1 => ret[i - 1].GE < ret[i].GE
        /\ (args.start = 0 /\ args.stop = 1000 /\ args.step = 500) =>
               [i \in 1 .. Len(ret) |-> ret[i].GE] = <<0, 500, 1000>>

\* the input list of a list-driven sweep, after the None default
C5_Input ==
    CASE args.fn = "run_buying_factor_sweep_1c" ->
           IF args.factors = None THEN run_buying_factor_sweep_1c_Default ELSE args.factors
      [] args.fn = "run_omega_sweep_1c" ->
           IF args.omegas = None THEN run_omega_sweep_1c_Default ELSE args.omegas
      [] args.fn = "run_tolerance_sweep_1c" ->
           IF args.tolerances = None THEN run_tolerance_sweep_1c_Default ELSE args.tolerances

\* the value the i-th pass of a range-driven sweep is at
C5_Iterated ==
    CASE args.fn = "run_buying_price_sweep" -> BuyingFactors
      [] args.fn = "run_omega_sweep_2b" -> Linspace(OmegaFrom2b, OmegaTo2b, args.steps)
      [] args.fn = "sweep_battery_cost" -> Linspace(args.min_cost, args.max_cost, args.steps)

\* C5: records come in iteration order, one per value. The i-th record of
\* a list-driven sweep carries the i-th input value, sorted or not,
\* repeated or not; the record of sweep_1b at position t*|omegas| + o
\* carries tolerances[t] and omegas[o] (tolerance outer, omega inner); the
\* i-th record of a range-driven sweep carries the i-th value of its range
\* (for the two GE sweeps: that value as round(., 2) renders it).
C5_RecordsInIterationOrder ==
    pc # "idle" =>
      LET key == IF args.fn \in DOMAIN C2_TagKey THEN C2_TagKey[args.fn] ELSE "none"
          N == Len(results_all)
      IN
        /\ args.fn \in {"run_buying_factor_sweep_1c", "run_omega_sweep_1c",
                        "run_tolerance_sweep_1c"} =>
             /\ N <= Len(C5_Input)
             /\ \A i \in 1 .. N : results_all[i][key] = C5_Input[i]
             /\ pc = "returned" => ret = results_all /\ N = Len(Take(C5_Input, MaxSweepLen))
        /\ args.fn = "sweep_1b" =>
             /\ \A pos \in 1 .. N :
                  /\ results_all[pos].tolerance_ratio
                       = Tolerances1b[((pos - 1) \div Len(Omegas1b)) + 1]
                  /\ results_all[pos].omega = Omegas1b[((pos - 1) % Len(Omegas1b)) + 1]
             /\ pc = "returned" =>
                  ret = results_all /\ N = Len(Tolerances1b) * Len(Omegas1b)
        /\ args.fn \in {"run_buying_price_sweep", "run_omega_sweep_2b",
                        "sweep_battery_cost"} =>
             /\ N <= Len(C5_Iterated)
             /\ \A i \in 1 .. N : results_all[i][key] = C5_Iterated[i]
             /\ pc = "returned" => ret = results_all /\ N = Len(C5_Iterated)
        /\ args.fn = "run_export_tariff_sweep" =>
             /\ \A i \in 1 .. N : results_all[i].GE \in Round2(args.start + (i - 1) * args.step)
             /\ pc = "returned" => ret = results_all /\ N = Len(C4_Values)
        /\ args.fn = "run_GE_sweep_1c" =>
             /\ \A i \in 1 .. N : results_all[i].GE \in Round2(args.start + (i - 1) * args.step)
             /\ pc = "returned" => ret = results_all /\ N = Len(loc.ge_values)

\* a list-driven sweep over an unsorted list with a repeated value has
\* returned, and so has the nested sweep with all its points
C5_Witness ==
    /\ pc = "returned"
    /\ \/ /\ args.fn = "run_buying_factor_sweep_1c"
          /\ C5_Input = <<10, 0, 10>>
          /\ [i \in 1 .. Len(ret) |-> ret[i].factor] = <<10, 0, 10>>
       \/ /\ args.fn = "sweep_1b"
          /\ Len(ret) = Len(Tolerances1b) * Len(Omegas1b)
          /\ Len(ret) > Len(Omegas1b)
          /\ ret[Len(Omegas1b) + 1].tolerance_ratio # ret[1].tolerance_ratio
          /\ ret[2].omega # ret[1].omega

\* C6: run_omega_sweep_2b(GE, steps) returns steps records whose omega
\* tags are evenly spaced from 0 to 3, both ends included.
C6_OmegaSweep2bFromZeroToThree ==
    (pc = "returned" /\ args.fn = "run_omega_sweep_2b") =>
        /\ Len(ret) = args.steps
        /\ args.steps >= 2 =>
             /\ ret[1].omega = 0
             /\ ret[args.steps].omega = 3000
             /\ \A i \in 1 .. args.steps : ret[i].omega = Linspace(0, 3000, args.steps)[i]

\* C7: during and after sweep_battery_cost the storage dict loaded before
\* the loop holds the battery cost it was loaded with, and the params of
\* every model built so far still hold the cost the model was built with.
C7_StorageSpecNotMutated ==
    (pc \in {"sweep_battery_cost", "returned"} /\ args.fn = "sweep_battery_cost") =>
        /\ heap[loc.storage].battery_cost_per_kWh = data.storage.battery_cost_per_kWh
        /\ \A k \in 1 .. Len(models) :
             StorageOf(models[k].params, heap).battery_cost_per_kWh = models[k].lp.Bat_cost

\* the results of the optimal solves so far: of the models, and the copies
\* the sweeps have collected
OptimalRecords ==
    {models[k].results : k \in {j \in 1 .. Len(models) :
                                  IsOptimal(models[j].results)}}
    \cup {results_all[k] : k \in {j \in 1 .. Len(results_all) :
                                    IsOptimal(results_all[j])}}

\* an hourly array of a record, all zero where the model has no such variable
HourlyOrZero(res, key) == IF key \in DOMAIN res THEN res[key] ELSE [h \in DOMAIN res.pv |-> 0]

\* C8: in every record of an optimal solve, for every hour h,
\* served[h] = pv[h] + import[h] + discharge[h] - export[h] - charge[h],
\* charge and discharge being zero in 1a and 1b, served being
\* demand_served in 1a.
C8_EnergyConservation ==
    \A res \in OptimalRecords :
        LET served == IF "demand_served" \in DOMAIN res THEN res.demand_served ELSE res.served
            charge == HourlyOrZero(res, "charge")
            discharge == HourlyOrZero(res, "discharge")
        IN  \A h \in DOMAIN res.pv :
                served[h] = res.pv[h] + res["import"][h] + discharge[h]
                            - res.export[h] - charge[h]

\* an optimal battery record in which an hour charges and another discharges
C8_Witness ==
    \E res \in OptimalRecords :
        /\ "charge" \in DOMAIN res
        /\ \E h \in Hours : res.charge[h] > 0
        /\ \E h \in Hours : res.discharge[h] > 0

\* C9: every primal value of an optimal record is inside its declared
\* bounds in every hour: 0 <= pv_used <= pv; import, export, deviation >= 0;
\* 0 <= served <= d_hour; in 1c 0 <= soc <= cap, 0 <= charge <=
\* charge_ratio*cap, 0 <= discharge <= discharge_ratio*cap; in 2b the same
\* with cap*battery_scale for cap, and battery_scale >= 0.
C9_PrimalsWithinBounds ==
    \A k \in 1 .. Len(models) :
        LET m == models[k]
            res == m.results
            p == m.params
        IN  IsOptimal(res) =>
              /\ \A h \in p.hours :
                   /\ 0 <= res.pv[h] /\ RatioDen * res.pv[h] <= p.pv[h]
                   /\ res["import"][h] >= 0
                   /\ res.export[h] >= 0
              /\ m.cls # "1a" =>
                   \A h \in Hours :
                      /\ res.deviation[h] >= 0
                      /\ 0 <= res.served[h] /\ res.served[h] <= p.d_hour
              /\ m.cls \in {"1c", "2b"} =>
                   LET st == StorageOf(p, heap)
                       cap == st.storage_capacity_kWh
                       scale == IF m.cls = "2b" THEN res.battery_scale ELSE 1
                   IN  /\ scale >= 0
                       /\ \A h \in Hours :
                            /\ 0 <= res.soc[h] /\ res.soc[h] <= cap * scale
                            /\ 0 <= res.charge[h]
                            /\ RatioDen * res.charge[h]
                                 <= st.max_charging_power_ratio * cap * scale
                            /\ 0 <= res.discharge[h]
                            /\ RatioDen * res.discharge[h]
                                 <= st.max_discharging_power_ratio * cap * scale

\* an optimal 1c record charging at its power bound, an optimal 2b record
\* with a bought battery filled to its scaled capacity
C9_Witness ==
    \E k \in 1 .. Len(models) :
        LET m == models[k]
            st == StorageOf(m.params, heap)
        IN  /\ IsOptimal(m.results)
            /\ \/ /\ m.cls = "1c"
                  /\ \E h \in Hours :
                       /\ m.results.charge[h] > 0
                       /\ RatioDen * m.results.charge[h]
                            = st.max_charging_power_ratio * st.storage_capacity_kWh
               \/ /\ m.cls = "2b"
                  /\ m.results.battery_scale > 0
                  /\ \E h \in Hours :
                       m.results.soc[h] = st.storage_capacity_kWh * m.results.battery_scale

\* C10: in model 1a every point the hourly constraints admit (so every
\* feasible and every optimal solution) has export <= pv_used <= pv in
\* every hour, hence demand_served = pv_used + import - export >= import
\* >= 0; the optimal record shows the same.
C10_NoExportBeyondPvUsed ==
    \A k \in 1 .. Len(models) :
        LET m == models[k] IN
        (m.cls = "1a" /\ m.built) =>
          /\ \A h \in m.params.hours :
               \A o \in HourOpts1a(m.lp, h) :
                   /\ o.z <= o.x
                   /\ RatioDen * o.x <= m.params.pv[h]
                   /\ o.x + o.y - o.z >= o.y
                   /\ o.y >= 0
          /\ IsOptimal(m.results) =>
               \A h \in m.params.hours :
                   /\ m.results.export[h] <= m.results.pv[h]
                   /\ RatioDen * m.results.pv[h] <= m.params.pv[h]
                   /\ m.results.demand_served[h] >= m.results["import"][h]
                   /\ m.results["import"][h] >= 0

\* an optimal 1a record exporting, in some hour, all the PV it uses
C10_Witness ==
    \E k \in 1 .. Len(models) :
        /\ models[k].cls = "1a"
        /\ IsOptimal(models[k].results)
        /\ \E h \in Hours : /\ models[k].results.export[h] > 0
                            /\ models[k].results.export[h] = models[k].results.pv[h]

\* the models of class 1c or 2b whose solve was optimal
OptimalBatteryModels ==
    {models[k] : k \in {j \in 1 .. Len(models) :
                          /\ models[j].cls \in {"1c", "2b"}
                          /\ IsOptimal(models[j].results)}}

\* soc_init of a battery model as a numerator over RatioDen:
\* initial_soc_ratio*cap in 1c, initial_soc_ratio*cap*battery_scale in 2b
SocInitOf(m) ==
    LET cap == heap[m.params.storage.ref].storage_capacity_kWh
        ratio == m.params.storage_preferences.val.initial_soc_ratio
    IN  IF m.cls = "1c" THEN ratio * cap ELSE ratio * cap * m.results.battery_scale

\* eta_c*charge[k] - discharge[k]/eta_d, multiplied by RatioDen * eta_d
SocGain(m, k) ==
    LET st == heap[m.params.storage.ref]
    IN  st.charging_efficiency * st.discharging_efficiency * m.results.charge[k]
        - RatioDen * RatioDen * m.results.discharge[k]

\* C11: in every optimal record of 1c and 2b, soc[0] = soc_init +
\* eta_c*charge[0] - discharge[0]/eta_d, for every hour h > 0
\* soc[h] = soc[h-1] + eta_c*charge[h] - discharge[h]/eta_d, and so
\* soc[h] = soc_init + the sum over k <= h of eta_c*charge[k] - discharge[k]/eta_d.
C11_SocRecursion ==
    \A m \in OptimalBatteryModels :
        LET eta_d == heap[m.params.storage.ref].discharging_efficiency
            soc == m.results.soc
        IN  /\ RatioDen * eta_d * soc[0] = eta_d * SocInitOf(m) + SocGain(m, 0)
            /\ \A h \in Hours \ {0} :
                 RatioDen * eta_d * soc[h] = RatioDen * eta_d * soc[h - 1] + SocGain(m, h)
            /\ \A h \in Hours :
                 RatioDen * eta_d * soc[h]
                    = eta_d * SocInitOf(m) + SumTo([k \in Hours |-> SocGain(m, k)], h + 1)

\* an optimal battery record that holds charge over an hour boundary, and
\* a sized battery (2b) that is charged in hour 0
C11_Witness ==
    /\ \E m \in OptimalBatteryModels : m.results.soc[0] > 0 /\ m.results.discharge[1] > 0
    /\ \E m \in OptimalBatteryModels :
         m.cls = "2b" /\ m.results.battery_scale > 0 /\ m.results.charge[0] > 0

\* the last hour of a model's hour index: max(hours)
LastHour(m) == MaxOf(m.params.hours)

\* C12: in every optimal record of 1c the soc of the last hour equals
\* final_soc_ratio*cap, in every optimal record of 2b it equals
\* final_soc_ratio*cap*battery_scale; the pinned hour is the last hour
\* H-1 of the horizon.
C12_FinalSocPinned ==
    \A m \in OptimalBatteryModels :
        LET cap == heap[m.params.storage.ref].storage_capacity_kWh
            ratio == m.params.storage_preferences.val.final_soc_ratio
            target == IF m.cls = "1c" THEN ratio * cap
                      ELSE ratio * cap * m.results.battery_scale
        IN  /\ LastHour(m) = NumHours - 1
            /\ RatioDen * m.results.soc[NumHours - 1] = target

\* an optimal 1c record that ends the day at a target above zero
C12_Witness ==
    \E m \in OptimalBatteryModels :
        /\ m.cls = "1c"
        /\ m.params.storage_preferences.val.final_soc_ratio > 0
        /\ m.results.soc[NumHours - 1] > 0

\* the models whose solve was optimal
OptimalModels ==
    {models[k] : k \in {j \in 1 .. Len(models) : IsOptimal(models[j].results)}}

\* a term of a record, zero where the record has no such key
TermOrZero(res, key) == IF key \in DOMAIN res THEN res[key] ELSE 0

\* C13: in every optimal record, objective = export_revenue - import_cost
\* - discomfort_penalty - battery_cost, discomfort_penalty being absent
\* for 1a and battery_cost present only for 2b; net_profit equals the
\* objective; and the four terms are computed from the prices, tariffs,
\* lambda and battery unit cost the objective was built with.
C13_ObjectiveDecomposition ==
    /\ \A res \in OptimalRecords :
         /\ res.objective = res.export_revenue - res.import_cost
                            - TermOrZero(res, "discomfort_penalty")
                            - TermOrZero(res, "battery_cost")
         /\ res.net_profit = res.objective
    /\ \A m \in OptimalModels :
         LET res == m.results
         IN  /\ ("discomfort_penalty" \in DOMAIN res) = (m.cls # "1a")
             /\ ("battery_cost" \in DOMAIN res) = (m.cls = "2b")
             /\ res.export_revenue
                  = SumOfHours(m.lp.hours, [h \in m.lp.hours |-> res.export[h] * (m.lp.s[h] - m.lp.GE)])
             /\ res.import_cost
                  = SumOfHours(m.lp.hours, [h \in m.lp.hours |-> res["import"][h] * (m.lp.b[h] + m.lp.GI)])
             /\ m.cls # "1a" =>
                  res.discomfort_penalty
                    = SumOver([h \in Hours |-> m.lp.lam * res.deviation[h]])
             /\ m.cls = "2b" =>
                  res.battery_cost = m.lp.Bat_cost * m.lp.cap * res.battery_scale

\* an optimal 2b record that pays for a battery and for discomfort
C13_Witness ==
    \E m \in OptimalModels :
        /\ m.cls = "2b"
        /\ m.results.battery_cost > 0
        /\ m.results.discomfort_penalty > 0
        /\ m.results.export_revenue > 0

\* the export tariff of the k-th point of the running export tariff sweep
C14_SweptGE(k) == args.start + (k - 1) * args.step

\* C14: in the base model with every other parameter fixed, if GE1 <= GE2
\* and both solves are optimal, the export revenue of the GE2 solve is not
\* greater than that of the GE1 solve: the points of one export tariff
\* sweep differ in GE only, the k-th being solved at start + (k-1)*step.
C14_RevenueMonotoneInGE ==
    (pc # "idle" /\ args.fn = "run_export_tariff_sweep") =>
        \A i, j \in 1 .. Len(results_all) :
            (/\ C14_SweptGE(i) <= C14_SweptGE(j)
             /\ results_all[i].status = GRB_OPTIMAL
             /\ results_all[j].status = GRB_OPTIMAL)
            => results_all[j].export_revenue <= results_all[i].export_revenue

\* a sweep with two optimal points, the one at the higher tariff earning
\* strictly less from export
C14_Witness ==
    /\ pc = "returned" /\ args.fn = "run_export_tariff_sweep"
    /\ \E i, j \in 1 .. Len(results_all) :
         /\ C14_SweptGE(i) < C14_SweptGE(j)
         /\ results_all[i].status = GRB_OPTIMAL
         /\ results_all[j].status = GRB_OPTIMAL
         /\ 0 < results_all[j].export_revenue
         /\ results_all[j].export_revenue < results_all[i].export_revenue

\* discomfort weights to compare a finished run_optimization_1b with
C15_Lambdas == {0, 100, 1500, 3000}

\* C15: in the flexible-load model with every other parameter (the
\* tolerance band included) fixed, if lambda1 <= lambda2 and both solves
\* are optimal, the total_deviation of the lambda2 solve is not greater
\* than that of the lambda1 solve, lambda1 = 0 included: among the records
\* of sweep_1b with the same tolerance ratio, and between a finished
\* run_optimization_1b and the same call at another weight.
C15_DeviationMonotoneInLambda ==
    /\ (pc # "idle" /\ args.fn = "sweep_1b") =>
         \A i, j \in 1 .. Len(results_all) :
             (/\ results_all[i].tolerance_ratio = results_all[j].tolerance_ratio
              /\ results_all[i].omega <= results_all[j].omega)
             => results_all[j].total_deviation <= results_all[i].total_deviation
    /\ (pc = "returned" /\ args.fn = "run_optimization_1b") =>
         \A lam \in C15_Lambdas :
             \A r \in {call_run_optimization_1b(data, solver, lam, args.tolerance_ratio)} :
                 ~r.raised =>
                     /\ lam <= args.lambda_discomfort
                          => ret.total_deviation <= r.value.total_deviation
                     /\ args.lambda_discomfort <= lam
                          => r.value.total_deviation <= ret.total_deviation

\* a sweep_1b in which, at one tolerance ratio, the deviation at omega 0
\* is strictly above the deviation at a positive omega
C15_Witness ==
    /\ pc # "idle" /\ args.fn = "sweep_1b"
    /\ \E i, j \in 1 .. Len(results_all) :
         /\ results_all[i].tolerance_ratio = results_all[j].tolerance_ratio
         /\ results_all[i].omega = 0
         /\ results_all[j].omega > 0
         /\ results_all[j].total_deviation < results_all[i].total_deviation

\* C16: on the flat day (24 hours, pv 1.0, b = s = 1.0, GI = GE = 0.1,
\* D = 10) model 1a is optimal and its objective is 12.6 on every solve,
\* whatever the solver's tie-break: 14 kWh are exported and nothing is
\* imported.
C16_FlatDayObjective ==
    (pc # "idle" /\ args.fn = "OptimizationModel1a" /\ models[1].params = FlatDayParams1a) =>
        /\ pc = "returned"
        /\ ret.status = GRB_OPTIMAL
        /\ ret.objective = 12600
        /\ ret.total_export = 14
        /\ ret.total_import = 0

\* the flat day has been solved, over all of its 24 hours
C16_Witness ==
    /\ pc = "returned" /\ args.fn = "OptimizationModel1a"
    /\ models[1].params = FlatDayParams1a
    /\ DOMAIN ret.export = 0 .. 23
    /\ ret.status = GRB_OPTIMAL
    /\ ret.objective > 0

\* the keys of a 1b result the tolerance default is compared on
C17_SameOutcome(a, b) ==
    /\ a.status = b.status
    /\ a.status = GRB_OPTIMAL =>
         /\ a.objective = b.objective
         /\ a.total_deviation = b.total_deviation
         /\ a.deviation = b.deviation

\* C17: a 1b parameter set without the key tolerance builds the same
\* constraints, and gives the same optimal objective and total deviation,
\* as the same parameter set with tolerance[h] = 0 at every hour.
C17_ToleranceDefault ==
    (pc = "returned" /\ args.fn = "OptimizationModel1b" /\ ~args.with_tolerance) =>
        \E zero \in {run_1b(NewModel("1b", DirectParams1b(WithPvCapacity(data, args.max_power_kW),
                                                          args.lambda_discomfort, TRUE)), solver)} :
            /\ "tolerance" \notin DOMAIN models[1].params
            /\ "tolerance" \in DOMAIN zero.params
            /\ models[1].lp = zero.lp
            /\ C17_SameOutcome(models[1].results, zero.results)

\* a model built from parameters without the key tolerance has run to an
\* optimum that deviates from the reference load
C17_Witness ==
    /\ pc = "returned" /\ args.fn = "OptimizationModel1b" /\ ~args.with_tolerance
    /\ "tolerance" \notin DOMAIN models[1].params
    /\ ret.status = GRB_OPTIMAL
    /\ ret.total_deviation > 0

\* a record without its tolerance_ratio tag
C18_Untagged(res) == [k \in DOMAIN res \ {"tolerance_ratio"} |-> res[k]]

\* C18: model 1c takes no tolerance band. The problem built from a
\* parameter set with a tolerance entry is the problem built without it,
\* and the records of two points of a tolerance sweep of 1c are equal in
\* every field except the tolerance_ratio tag.
C18_NoToleranceIn1c ==
    (pc # "idle" /\ args.fn = "run_tolerance_sweep_1c") =>
        /\ \A i, j \in 1 .. Len(results_all) :
               C18_Untagged(results_all[i]) = C18_Untagged(results_all[j])
        /\ \A i \in 1 .. Len(results_all) :
               /\ results_all[i].tolerance_ratio = loc.tolerances[i]
               /\ "tolerance" \in DOMAIN models[i].params
               /\ models[i].lp = models[1].lp

\* a finished tolerance sweep of 1c with two different tolerance ratios
\* and an optimum that deviates from the reference load
C18_Witness ==
    /\ pc = "returned" /\ args.fn = "run_tolerance_sweep_1c"
    /\ \E i, j \in 1 .. Len(results_all) :
         /\ results_all[i].tolerance_ratio # results_all[j].tolerance_ratio
         /\ results_all[i].status = GRB_OPTIMAL
         /\ results_all[i].total_deviation > 0
         /\ models[i].params.tolerance # models[j].params.tolerance

\* the parameter set of a model is malformed for its class: a key the
\* build reads is missing or an hourly array lacks an hour
C19_Malformed(model) ==
    \/ model.cls = "1a" /\ build_model_1a_raises(model.params)
    \/ model.cls = "2b" /\ build_model_2b_raises(model.params, heap)

\* C19: a malformed parameter set makes run() fail at build time, before
\* the solver is called: the error reaches the caller, no status is written
\* to results, the model is not marked as built, and a sweep that hits such
\* a point returns no sequence (it ends there, with the error).
C19_BuildErrorPropagates ==
    \A k \in 1 .. Len(models) :
        C19_Malformed(models[k]) =>
            /\ models[k].results = EmptyDict
            /\ ~models[k].built
            /\ models[k].lp = EmptyDict
            /\ pc = "raised"
            /\ ret = "KeyError"
            /\ k = Len(models)
            /\ ~(ENABLED Next)

\* a sweep of 2b has hit a storage entry without battery_lifetime_yrs
C19_Witness ==
    /\ pc = "raised"
    /\ args.fn \in {"run_omega_sweep_2b", "sweep_battery_cost"}
    /\ Len(models) >= 1
    /\ C19_Malformed(models[Len(models)])

\* the hours of a built 2b model that lie beyond its lifetime threshold
C20_HoursBeyondLifetime(m) == {h \in m.lp.hours : h > m.lp.T_max}

\* C20: in 2b, at every hour h > T_max the cutoff variable and its
\* constraint Bat_cutoff[h]*h <= T_max restrict the charge, discharge or
\* state of charge a feasible solution may have at that hour: some battery
\* use that the other constraints of the hour admit is ruled out by it.
C20_CutoffRestrictsBattery ==
    \A k \in 1 .. Len(models) :
        (models[k].cls = "2b" /\ models[k].built) =>
            \A h \in C20_HoursBeyondLifetime(models[k]) :
                \E scale \in Qty :
                    \E v \in [x : Qty, y : Qty, z : Qty, charge : Qty, discharge : Qty] :
                        /\ PVcap(models[k].lp, h, v)
                        /\ Charge_cap(models[k].lp, scale, v)
                        /\ Discharge_cap(models[k].lp, scale, v)
                        /\ v.charge + v.discharge > 0
                        /\ ~Battery_turnoff(models[k].lp, h)

\* ---------------------------------------------------------------------
\* 2b against 1c and 1b
\* ---------------------------------------------------------------------
\* the built 2b models on record
Built2bModels ==
    {models[k] : k \in {j \in 1 .. Len(models) : models[j].cls = "2b" /\ models[j].built}}

\* the 1c problem built from the parameters of a 2b model
C21_Lp1c(m) == build_model_1c(NewModel("1c", m.params), heap).lp

\* the 1b problem without tolerance built from the parameters of a 2b model
C21_Lp1b(m) == build_model_1b(NewModel("1b", Without(m.params, "tolerance"))).lp

\* the hour's decisions, with their objective terms, that a stage offers
C21_Offers(stage) == {[gain |-> e.gain, pt |-> e.pt] : e \in UNION {st.edges : st \in stage}}

\* the soc values hour i can start from
C21_Starts(i) == IF i = 0 THEN {"init"} ELSE Qty

\* the decisions of 2b at battery_scale 1 are those of 1c, hour by hour
\* and from every soc, and the terminal conditions agree
C21_ScaleOneIs1c(m) ==
    /\ \A i \in Hours : \A r \in C21_Starts(i) :
         C21_Offers(Edges2b(m.lp, i, {[scale |-> 1, soc |-> r]}))
            = {[gain |-> e.gain, pt |-> [Bat_scale |-> 1] @@ e.pt]
               : e \in C21_Offers(Edges1c(C21_Lp1c(m), i, {r}))}
    /\ \A r \in Qty : SOC_final_scaled(m.lp, 1, r) <=> SOC_final(C21_Lp1c(m), r)

\* the decisions of 2b at battery_scale 0 are those of 1b without
\* tolerance, with charge, discharge and soc at 0
C21_ScaleZeroIs1b(m) ==
    /\ \A i \in Hours :
         C21_Offers(Edges2b(m.lp, i, {[scale |-> 0, soc |-> IF i = 0 THEN "init" ELSE 0]}))
            = {[gain |-> e.gain,
                pt |-> [Bat_scale |-> 0, charge |-> 0, discharge |-> 0, soc |-> 0] @@ e.pt]
               : e \in C21_Offers(Edges1b(C21_Lp1b(m), i, {0}))}
    /\ SOC_final_scaled(m.lp, 0, 0)

\* the objective of 2b is at least that of the 1c record r1c less the
\* cost of the whole battery, and at least that of the 1b record r1b
C21_Dominates(m, r1c, r1b) ==
    /\ IsOptimal(r1b)
    /\ m.results.objective >= r1b.objective
    /\ IsOptimal(r1c) => m.results.objective >= r1c.objective - m.lp.Bat_cost * m.lp.cap

\* C21: for the same parameters the feasible dispatches of 2b with
\* battery_scale 1 are those of 1c and with battery_scale 0 those of 1b
\* without tolerance (charge = discharge = soc = 0); whenever 2b is optimal,
\* objective_2b >= objective_1c - battery_cost_per_kWh*cap and
\* objective_2b >= objective_1b(tolerance 0).
C21_GeneralizesBatteryModel ==
    \A m \in Built2bModels :
        /\ C21_ScaleOneIs1c(m)
        /\ C21_ScaleZeroIs1b(m)
        /\ IsOptimal(m.results) =>
             C21_Dominates(m,
                           run_1c(NewModel("1c", m.params), heap, solver).results,
                           run_1b(NewModel("1b", Without(m.params, "tolerance")), solver).results)

\* an optimal 2b record over parameters on which 1c is optimal too, and
\* one that buys a battery
C21_Witness ==
    /\ \E m \in Built2bModels :
         /\ IsOptimal(m.results)
         /\ IsOptimal(run_1c(NewModel("1c", m.params), heap, solver).results)
    /\ \E m \in Built2bModels : IsOptimal(m.results) /\ m.results.battery_scale > 0

\* ---------------------------------------------------------------------
\* the shadow price of PVcap
\* ---------------------------------------------------------------------
\* the optimal 1a and 1b models on record over the hours of the data files
C22_Models ==
    {models[k] : k \in {j \in 1 .. Len(models) :
                          /\ models[j].cls \in {"1a", "1b"}
                          /\ IsOptimal(models[j].results)
                          /\ models[j].params.hours = Hours}}

\* the optimal objective of the problem lp of class cls: a set of one
\* value, or of none when the solve is not optimal
C22_Optimum(cls, lp) ==
    IF cls = "1a"
    THEN {ObjVal1a(lp, o.X) : o \in {q \in {optimize_1a(lp, 0)} : q.status = GRB_OPTIMAL}}
    ELSE {ObjValFlex(lp, o.X) : o \in {q \in {optimize_1b(lp, 0)} : q.status = GRB_OPTIMAL}}

\* the problem of m with pv[h] moved by by, a numerator over RatioDen
C22_PvMoved(m, h, by) == [m.lp EXCEPT !.pv[h] = @ + by]

\* the change of the optimal objective when pv[h] is raised by one unit;
\* the unit must fit the range of the decision variables
C22_Gain(m, h) ==
    IF m.lp.pv[h] + RatioDen > RatioDen * MaxQty THEN {}
    ELSE {v - m.results.objective : v \in C22_Optimum(m.cls, C22_PvMoved(m, h, RatioDen))}

\* the change of the optimal objective that the last unit of pv[h] made
C22_Loss(m, h) ==
    IF m.lp.pv[h] < RatioDen THEN {}
    ELSE {m.results.objective - v : v \in C22_Optimum(m.cls, C22_PvMoved(m, h, 0 - RatioDen))}

\* PVcap[h].Pi of an optimal solve, by the solver's contract: a shadow
\* price is the rate of change of the optimal objective in the right-hand
\* side; where the rates on the two sides of pv[h] differ the solver may
\* report either
C22_Pi(m, h) == C22_Gain(m, h) \union C22_Loss(m, h)

C23_ListRun ==
    IF args.fn = "OptimizationModel1c"
    THEN run_1c(NewModel("1c", DirectParamsBat(data, Len(heap), 1500, FALSE)), heap, solver)
    ELSE run_2b(NewModel("2b", DirectParamsBat(data, Len(heap), 1500, FALSE)), heap, solver)

\* C23: for 1c and 2b, running with storage and storage_preferences given
\* as the bare dictionaries completes without error and produces the same
\* result record as running with them given as one-element lists,
\* including the battery_cost of 2b.
C23_BareDictSameAsList ==
    (/\ pc \in {"returned", "raised"}
     /\ args.fn \in {"OptimizationModel1c", "OptimizationModel2b"}
     /\ args.bare) =>
        \/ BuildRaised(C23_ListRun) /\ pc = "raised"
        \/ ~BuildRaised(C23_ListRun) /\ pc = "returned" /\ ret = C23_ListRun.results

\* ---------------------------------------------------------------------
\* the deviation of 1b
\* ---------------------------------------------------------------------
\* the optimal 1b models on record
C24_Models ==
    {models[k] : k \in {j \in 1 .. Len(models) :
                          models[j].cls = "1b" /\ IsOptimal(models[j].results)}}

\* |served[h] - ref_load[h]| - tolerance[h], a numerator over RatioDen * RatioDen
C24_Excess(m, h) ==
    LET gap == RatioDen * RatioDen * m.results.served[h] - RatioDen * m.lp.ref_load[h]
    IN  (IF gap >= 0 THEN gap ELSE 0 - gap) - m.lp.tol[h]

\* max(0, |served[h] - ref_load[h]| - tolerance[h]), the same numerator
C24_Bound(m, h) == IF C24_Excess(m, h) > 0 THEN C24_Excess(m, h) ELSE 0

\* deviation[h] is the bound; where the bound is no whole unit of the
\* decision variables, the unit next above it
C24_Exact(m, h) ==
    LET u == RatioDen * RatioDen * m.results.deviation[h]
    IN  /\ u >= C24_Bound(m, h)
        /\ u < C24_Bound(m, h) + RatioDen * RatioDen
        /\ C24_Bound(m, h) % (RatioDen * RatioDen) = 0 => u = C24_Bound(m, h)

C25_OnePointCost(cost) ==
    LET bus == load_bus_params(data)
        params == BatParamsOf(data, 1, bus.energy_price, bus.energy_price,
                              args.GE, args.lambda_discomfort)
    IN  DictSet(run_2b(NewModel("2b", params), SetBatteryCost(<<data.storage>>, 1, cost),
                       solver).results,
                "battery_cost_per_kWh", cost)

\* the records run_export_tariff_sweep(ge, ge, step) can return for its
\* one point
C25_OnePointGE(ge) ==
    LET bus == load_bus_params(data)
        usage == load_usage_preferences(data)
        params == Params1a(Hours, PvOf(data), bus.energy_price, bus.energy_price,
                           bus.import_tariff, ge, usage.load_preferences[1].min_total_energy)
    IN  {DictSet(run_1a(NewModel("1a", params), solver).results, "GE", tag) : tag \in Round2(ge)}

\* the record of run_GE_sweep_1c(ge, ge, step, lambda_discomfort)
C25_OnePointGE1c(ge) ==
    {DictSet(sweep_GE_1c(data, <<>>, solver, ge, args.lambda_discomfort).value, "GE", tag)
     : tag \in Round2(ge)}

\* C25: the record a sweep returns for a swept value equals, in every
\* field, the record of a one-point sweep for that value alone, whatever
\* was solved before it; in sweep_battery_cost the battery_cost of the
\* record tagged with cost c is c*cap*battery_scale of that record.
C25_SweepPointsIndependent ==
    /\ (pc \in {"sweep_battery_cost", "returned"} /\ args.fn = "sweep_battery_cost") =>
         \A k \in 1 .. Len(results_all) :
            /\ results_all[k] = C25_OnePointCost(loc.costs[k])
            /\ IsOptimal(results_all[k]) =>
                 results_all[k].battery_cost
                    = loc.costs[k] * data.storage.storage_capacity_kWh
                      * results_all[k].battery_scale
    /\ (pc \in {"run_export_tariff_sweep", "returned"} /\ args.fn = "run_export_tariff_sweep") =>
         \A k \in 1 .. Len(results_all) :
            results_all[k] \in C25_OnePointGE(args.start + (k - 1) * args.step)
    /\ (pc \in {"run_GE_sweep_1c", "returned"} /\ args.fn = "run_GE_sweep_1c") =>
         \A k \in 1 .. Len(results_all) :
            results_all[k] \in C25_OnePointGE1c(loc.ge_values[k])

\* a battery cost sweep has returned records of different costs for
\* batteries that were bought, each carrying its own cost
C25_Witness ==
    /\ pc = "returned" /\ args.fn = "sweep_battery_cost"
    /\ \E j, k \in 1 .. Len(ret) :
         /\ j < k
         /\ IsOptimal(ret[j]) /\ IsOptimal(ret[k])
         /\ ret[j].battery_scale > 0 /\ ret[k].battery_scale > 0
         /\ ret[j].battery_cost # ret[k].battery_cost

\* ---------------------------------------------------------------------
\* run() called again
\* ---------------------------------------------------------------------
\* the instance as its first run() left it, from the same parameters
C26_FirstRun == run_of(NewModel(models[1].cls, models[1].params), heap, solver)

\* C26: over any sequence of run() calls on one instance build_model is
\* executed at most once, and a second run() on unchanged parameters
\* yields the same problem, the same status and the same result record as
\* the first.
C26_BuildOnceSameRecord ==
    (pc # "idle" /\ args.fn \in DirectRuns) =>
        /\ DictGet(args, "builds", 1) <= 1
        /\ models[1].lp = C26_FirstRun.lp
        /\ models[1].results = C26_FirstRun.results

\* the part of C26 that holds: a run() after a run() that built re-solves
\* the problem as built and leaves the same record
C26_RerunSameRecord ==
    (pc # "idle" /\ args.fn \in DirectRuns) =>
        /\ models[1].built => DictGet(args, "builds", 1) = 1
        /\ models[1].lp = C26_FirstRun.lp
        /\ models[1].results = C26_FirstRun.results

\* ---------------------------------------------------------------------
\* termination of the export tariff sweep
\* ---------------------------------------------------------------------
\* start <= stop + 1e-9: the loop condition holds at the first test
C27_StartInRange == WithinStopNano(args.start, args.stop, StopNano(args))

\* start <= stop
C27_StartNotAboveStop == args.start * EpsDen <= args.stop * EpsDen + StopNano(args)

\* C27: run_export_tariff_sweep(start, stop, step) terminates exactly when
\* step > 0 or start > stop + 1e-9, returning an empty list in the second
\* case; with step <= 0 and start <= stop + 1e-9 the loop never leaves the
\* range and never returns.
C27_TerminatesIffLeavesRange ==
    /\ []((pc = "run_export_tariff_sweep" /\ (args.step > 0 \/ ~C27_StartInRange))
            => <>(pc = "returned"))
    /\ []((pc # "idle" /\ args.step <= 0 /\ C27_StartInRange)
            => (/\ pc = "run_export_tariff_sweep"
                /\ WithinStopNano(loc.ge, args.stop, StopNano(args))))
    /\ []((pc = "returned" /\ ~C27_StartInRange) => Len(ret) = 0)

\* a sweep with step <= 0 that started in range has appended as many
\* records as the model keeps and is in range still
C27_Witness ==
    /\ pc = "run_export_tariff_sweep"
    /\ args.step <= 0
    /\ Len(results_all) = MaxSweepLen
    /\ WithinStopNano(loc.ge, args.stop, StopNano(args))

\* C27 as stated: the sweep terminates exactly when step > 0 or
\* start > stop, with an empty list in the second case, and never returns
\* with step <= 0 and start <= stop
C27_TerminatesIffStartAboveStop ==
    /\ []((pc = "run_export_tariff_sweep" /\ (args.step > 0 \/ ~C27_StartNotAboveStop))
            => <>(pc = "returned"))
    /\ []((pc # "idle" /\ args.step <= 0 /\ C27_StartNotAboveStop)
            => pc = "run_export_tariff_sweep")
    /\ []((pc = "returned" /\ ~C27_StartNotAboveStop) => Len(ret) = 0)

\* ---------------------------------------------------------------------
\* C28
\* ---------------------------------------------------------------------
\* the 1a models that were built and solved, with pv[h] >= 0 in every hour
C28_Models ==
    {models[k] : k \in {j \in 1 .. Len(models) :
                          /\ models[j].cls = "1a"
                          /\ models[j].built
                          /\ "status" \in DOMAIN models[j].results
                          /\ \A h \in models[j].params.hours : models[j].params.pv[h] >= 0}}

\* sum_h (pv[h] + 1000) as a numerator over RatioDen: the most the hours
\* can serve, all PV used, every import at its bound, nothing exported
C28_Limit(m) ==
    SumOfHours(m.lp.hours, [i \in m.lp.hours |-> m.lp.pv[i] + RatioDen * m.lp.max_import])

\* the totals of the feasible points of a built 1a problem
C28_Feasible(lp) ==
    LET prob == Problem1a(lp)
    IN  Totals(prob.inits, Tables(prob.stages, prob.finals, 1))

C29_Models ==
    {models[k] : k \in {j \in 1 .. Len(models) :
                          /\ models[j].cls \in {"1b", "1c"}
                          /\ models[j].built
                          /\ "status" \in DOMAIN models[j].results}}

\* the built problem of a 1b or 1c model
C29_Problem(m) == IF m.cls = "1b" THEN Problem1b(m.lp) ELSE Problem1c(m.lp)

\* what one more unit imported and exported in hour h is worth:
\* (s[h] - GE) - (b[h] + GI)
C29_Margin(lp, h) == (lp.s[h] - lp.GE) - (lp.b[h] + lp.GI)

\* in every hour and from every point the hour's constraints admit, import
\* and export raised by one unit together are admitted too, lead to the
\* same state and change the hour's objective term by the margin
C29_WheelingFree(m) ==
    LET stages == C29_Problem(m).stages
    IN  \A h \in m.lp.hours : \A n \in stages[h + 1] : \A e \in n.edges :
            (e.pt.y < MaxQty /\ e.pt.z < MaxQty) =>
               \E f \in n.edges :
                   /\ f.pt = [e.pt EXCEPT !.y = @ + 1, !.z = @ + 1]
                   /\ f.to = e.to
                   /\ f.gain = e.gain + C29_Margin(m.lp, h)

\* the built problem has a feasible point
C29_Feasible(m) ==
    LET prob == C29_Problem(m)
    IN  Totals(prob.inits, Tables(prob.stages, prob.finals, 1)) # {}

\* C29: models 1b and 1c put no limit on importing and exporting in the
\* same hour. From any feasible point, import[h] and export[h] raised by
\* the same amount stay feasible and change the objective by that amount
\* times (s[h]-GE) - (b[h]+GI); so a solve is not optimal whenever
\* s[h]-GE > b[h]+GI in some hour, and it is unbounded when the problem is
\* feasible; run_buying_factor_sweep_1c gets there at factor 0 when the
\* price minus the export tariff exceeds the import tariff in some hour;
\* with lambda >= 0 and d_hour >= 0 model 1b is optimal whenever
\* s[h]-GE <= b[h]+GI in every hour.
C29_ImportExportUnlimited ==
    /\ \A m \in C29_Models :
         /\ C29_WheelingFree(m)
         /\ (\E h \in m.lp.hours : C29_Margin(m.lp, h) > 0) =>
              /\ m.results.status # GRB_OPTIMAL
              /\ C29_Feasible(m) => m.results.status \in {GRB_UNBOUNDED, GRB_INF_OR_UNBD}
         /\ ( /\ m.cls = "1b"
              /\ m.lp.lam >= 0
              /\ m.lp.d_hour >= 0
              /\ \A h \in m.lp.hours : C29_Margin(m.lp, h) <= 0 ) =>
              m.results.status = GRB_OPTIMAL
    /\ (pc # "idle" /\ args.fn = "run_buying_factor_sweep_1c") =>
         \A i \in 1 .. Len(results_all) :
             ( /\ results_all[i].factor = 0
               /\ \E h \in Hours : data.energy_price[h] - data.export_tariff > data.import_tariff ) =>
                 /\ results_all[i].status # GRB_OPTIMAL
                 /\ DOMAIN results_all[i] = {"status", "factor"}

\* run_buying_factor_sweep_1c has returned a record of factor 0 that the
\* solver reported unbounded, next to an optimal record of factor 1, and
\* the problem of factor 0 was feasible
C29_Witness ==
    /\ pc = "returned"
    /\ args.fn = "run_buying_factor_sweep_1c"
    /\ \E i, j \in 1 .. Len(ret) :
         /\ ret[i].factor = 0
         /\ ret[i].status = GRB_UNBOUNDED
         /\ models[i] \in C29_Models
         /\ C29_Feasible(models[i])
         /\ ret[j].factor = 10
         /\ IsOptimal(ret[j])

\* ---------------------------------------------------------------------
\* C30
\* ---------------------------------------------------------------------
\* the 2b models that were built and solved, with pv[h] >= 0 and d_hour >= 0
C30_Models ==
    {m \in Built2bModels : /\ "status" \in DOMAIN m.results
                           /\ m.params.d_hour >= 0
                           /\ \A h \in m.params.hours : m.params.pv[h] >= 0}

\* battery lifetimes in years a storage entry may state
C30_Lifetimes == {0 - 1, 0, 1, 10}

\* the 2b problem built from the parameters of m, the storage entry stating
\* a lifetime of yrs years
C30_LpWithLifetime(m, yrs) ==
    build_model_2b(NewModel("2b", m.params),
                   [heap EXCEPT ![m.params.storage.ref].battery_lifetime_yrs = yrs]).lp

\* the point of hour h with every flow, charge, discharge and soc at zero
\* and the deviation at the reference load
C30_ZeroPoint(lp, h) ==
    [x |-> 0, y |-> 0, z |-> 0, charge |-> 0, discharge |-> 0, served |-> 0,
     u |-> lp.ref_load[h] \div RatioDen, soc |-> 0]

\* Bat_scale = 0 with the zero point in every hour satisfies every
\* constraint of the built problem (the cutoff variables at zero)
C30_ZeroFeasible(lp) ==
    /\ \A h \in lp.hours :
         LET o == C30_ZeroPoint(lp, h) IN
         /\ [f \in DOMAIN o \ {"soc"} |-> o[f]] \in HourOpts2b(lp, h, 0)
         /\ 0 * h <= lp.T_max
         /\ o.u * RatioDen = lp.ref_load[h]
         /\ SOC_cap(lp, 0, o)
         /\ IF h = 0 THEN SOC_init_scaled(lp, 0, o) ELSE SOC_dyn(lp, 0, o)
    /\ SOC_final_scaled(lp, 0, 0)

\* the built 2b problem has a feasible point
C30_Feasible(lp) ==
    LET prob == Problem2b(lp)
    IN  Totals(prob.inits, Tables(prob.stages, prob.finals, 1)) # {}

\* what run() made of the models: a 2b solve that is not optimal is
\* reported unbounded (GRB.UNBOUNDED or GRB.INF_OR_UNBD) on a problem that
\* has a feasible point, and the record sweep_battery_cost warns about
\* (no battery_scale) is such a record
C30_NonOptimalIsUnbounded ==
    /\ \A m \in C30_Models :
         /\ C30_ZeroFeasible(m.lp)
         /\ m.results.status # GRB_OPTIMAL =>
              /\ m.results.status \in {GRB_UNBOUNDED, GRB_INF_OR_UNBD}
              /\ C30_Feasible(m.lp)
    /\ (pc # "idle" /\ args.fn = "sweep_battery_cost") =>
         \A i \in 1 .. Len(results_all) :
             "battery_scale" \notin DOMAIN results_all[i] =>
                 results_all[i].status \in {GRB_UNBOUNDED, GRB_INF_OR_UNBD}

\* C30: model 2b is feasible for every parameter set with pv[h] >= 0,
\* d_hour >= 0 and a battery lifetime >= 0 years: Bat_scale = 0 with all
\* flows, charge, discharge, soc and cutoff variables zero and
\* deviation[h] = ref_load[h] satisfies every constraint, whatever the
\* efficiencies and SOC ratios; so a non-optimal status of 2b, as warned
\* about in sweep_battery_cost, means an unbounded problem, never an
\* infeasible one.
C30_SizingFeasible ==
    /\ C30_NonOptimalIsUnbounded
    /\ \A m \in C30_Models : \A yrs \in {y \in C30_Lifetimes : y >= 0} :
           C30_ZeroFeasible(C30_LpWithLifetime(m, yrs))

\* sweep_battery_cost has appended a record without battery_scale, its
\* status GRB.UNBOUNDED, on a problem the zero point is feasible for
C30_Witness ==
    /\ pc # "idle"
    /\ args.fn = "sweep_battery_cost"
    /\ \E i \in 1 .. Len(results_all) :
         /\ "battery_scale" \notin DOMAIN results_all[i]
         /\ results_all[i].status = GRB_UNBOUNDED
         /\ models[i] \in C30_Models
         /\ C30_ZeroFeasible(models[i].lp)
         /\ \E h \in Hours : models[i].lp.ref_load[h] > 0

\* the claim as stated: feasible whatever the lifetime
C30_SizingFeasibleAnyLifetime ==
    /\ C30_NonOptimalIsUnbounded
    /\ \A m \in C30_Models : \A yrs \in C30_Lifetimes :
           C30_Feasible(C30_LpWithLifetime(m, yrs))

====
